---- MODULE Spec2Model ----
(***************************************************************************)
(* A model of gitsage's diff representation and patch-synthesis core:      *)
(*   src-tauri/src/git/patch.rs        generate_hunk_patch,                *)
(*                                     generate_line_patch                 *)
(*   src-tauri/src/git/libgit.rs       parse_diff, diff_file, line_changes *)
(*   src-tauri/src/git/cli.rs          apply_patch (git apply)             *)
(*   src-tauri/src/commands/workspace.rs  stage_hunk, unstage_hunk,        *)
(*                                     stage_lines, discard_hunk           *)
(*                                                                         *)
(* Text (a Rust String) is a sequence of one-character strings, so that    *)
(* formatting a patch and parsing it again are two different computations. *)
(***************************************************************************)
EXTENDS Integers, Sequences, FiniteSets, TLC

VARIABLES
    \* ---- the patch synthesizer called as a pure function (SpecPatch) ----
    hunk,            \* the DiffHunk handed to the synthesizer
    selected_lines,  \* the selected line indices (0-based, as in the code)
    reverse,         \* the reverse flag
    patch,           \* the text returned
    patch_op,        \* "none" | "generate_hunk_patch" | "generate_line_patch"
    \* ---- LibGitOps::line_changes, one loop iteration a step (SpecLines) ----
    eng_patch,       \* the engine's patch of the delta (Option<Patch>)
    hunk_idx,        \* hunk_idx of the loop over the hunks
    line_idx,        \* line_idx of the scan of the hunk
    changes,         \* the Vec<LineChange> built so far
    spans,           \* for each change, the hunk lines it consumed (history)
    lc_pc,           \* "scan" | "done"
    \* ---- the hunk commands of commands/workspace.rs (Spec) ----
    current_repo,    \* state.current_repo: "None" | "Some"
    head,            \* the lines of the tracked file in the HEAD tree
    index,           \* ... in the index
    workdir,         \* ... in the working tree
    last,            \* the last command: its call, what it did, its Result
    round_trip,      \* history: a stage_hunk and the unstage_hunk after it
    \* ---- LibGitOps::parse_diff, one delta of the loop a step (SpecParse) ----
    eng_diff,        \* the engine's diff: its deltas and their patches
    delta_idx,       \* delta_idx of the loop over the deltas
    files,           \* the Vec<DiffFile> built so far
    requested,       \* the deltas whose patch was asked of the engine (history)
    pd_pc,           \* "loop" | "done"
    \* ---- the commands as concurrent tasks around the Mutex (SpecLock) ----
    guard,           \* the task that holds the MutexGuard of current_repo; 0: none
    tasks,           \* each task: its command, where it is, what it has seen
    versions,        \* history: how often each repository was patched
    \* ---- the recent-repositories list of commands/repo.rs ----
    recent_repos,    \* state.recent_repos: the Vec<RepoEntry>, position 0 first
    reopens          \* history: how many listed repositories were opened again

patchVars == <<hunk, selected_lines, reverse, patch, patch_op>>
linesVars == <<eng_patch, hunk_idx, line_idx, changes, spans, lc_pc>>

appVars == <<current_repo, head, index, workdir, last, round_trip>>

parseVars == <<eng_diff, delta_idx, files, requested, pd_pc>>

lockVars == <<guard, tasks, versions>>

recentVars == <<recent_repos, reopens>>

vars == <<hunk, selected_lines, reverse, patch, patch_op,
          eng_patch, hunk_idx, line_idx, changes, spans, lc_pc,
          current_repo, head, index, workdir, last, round_trip,
          eng_diff, delta_idx, files, requested, pd_pc,
          guard, tasks, versions,
          recent_repos, reopens>>

\* the commands at rest while the synthesizer or line_changes is examined
IdleApp ==
    /\ current_repo = "None"
    /\ head = <<>> /\ index = <<>> /\ workdir = <<>>
    /\ last = [cmd |-> "none"]
    /\ round_trip = [phase |-> "idle"]

\* AppState::new: the recent list is empty, and stays so where open_repo
\* is not examined
IdleRecent == recent_repos = <<>> /\ reopens = 0

\* no task is followed while another part of the program is examined
IdleLock == guard = 0 /\ tasks = <<>> /\ versions = <<>>

\* parse_diff at rest while another part of the program is examined
IdleParse ==
    /\ eng_diff = <<>> /\ delta_idx = 0
    /\ files = <<>> /\ requested = <<>> /\ pd_pc = "done"

-----------------------------------------------------------------------------
(* Bounds of the model *)

\* the most lines a hunk handed to the synthesizer has
MaxLines == 3

\* the most lines of the first hunk, and of a second hunk, that line_changes
\* scans
MaxScanLines == 4
MaxSecondLines == 2

-----------------------------------------------------------------------------
(* Text *)

NL == "\n"

\* str::ends_with('\n')
EndsWithNewline(s) == Len(s) > 0 /\ s[Len(s)] = NL

Digit(d) == CASE d = 0 -> "0" [] d = 1 -> "1" [] d = 2 -> "2" [] d = 3 -> "3"
              [] d = 4 -> "4" [] d = 5 -> "5" [] d = 6 -> "6" [] d = 7 -> "7"
              [] d = 8 -> "8" [] d = 9 -> "9"

\* format!("{}", n) of a u32: its decimal digits
RECURSIVE FormatU32(_)
FormatU32(n) == IF n < 10 THEN <<Digit(n)>>
                ELSE FormatU32(n \div 10) \o <<Digit(n % 10)>>

-----------------------------------------------------------------------------
(* git/diff.rs: the diff model *)

DiffLineType == {"Context", "Addition", "Deletion", "Header"}

\* Option<u32>: None (the engine's -1), or the number
None == -1

DiffLine(origin, content, old_lineno, new_lineno) ==
    [origin |-> origin, content |-> content,
     old_lineno |-> old_lineno, new_lineno |-> new_lineno]

DiffHunk(old_start, old_lines, new_start, new_lines, lines) ==
    [old_start |-> old_start, old_lines |-> old_lines,
     new_start |-> new_start, new_lines |-> new_lines, lines |-> lines]

-----------------------------------------------------------------------------
(* git/patch.rs *)

\* "--- a/{}\n" and "+++ b/{}\n"
FileHeader(file_path) ==
    <<"-", "-", "-", " ", "a", "/">> \o file_path \o <<NL>>
    \o <<"+", "+", "+", " ", "b", "/">> \o file_path \o <<NL>>

\* a header whose two counts changed places
HunkHeader_CountsExchanged(a, b, c, d) ==
    <<"@", "@", " ", "-">> \o FormatU32(a) \o <<",">> \o FormatU32(d)
    \o <<" ", "+">> \o FormatU32(c) \o <<",">> \o FormatU32(b)
    \o <<" ", "@", "@", NL>>

\* "@@ -{},{} +{},{} @@\n"
HunkHeader(a, b, c, d) ==
    <<"@", "@", " ", "-">> \o FormatU32(a) \o <<",">> \o FormatU32(b)
    \o <<" ", "+">> \o FormatU32(c) \o <<",">> \o FormatU32(d)
    \o <<" ", "@", "@", NL>>

\* a match that does not look at reverse
HunkLineEmit_NoReverse(line, rev) ==
    CASE line.origin = "Context" -> <<" ">> \o line.content
      [] line.origin = "Addition" -> <<"+">> \o line.content
      [] line.origin = "Deletion" -> <<"-">> \o line.content
      [] line.origin = "Header" -> <<>>

\* the match of generate_hunk_patch on (origin, reverse): what is pushed
HunkLineEmit(line, rev) ==
    CASE line.origin = "Context" -> <<" ">> \o line.content
      [] (line.origin = "Addition" /\ ~rev) \/ (line.origin = "Deletion" /\ rev) ->
            <<"+">> \o line.content
      [] (line.origin = "Deletion" /\ ~rev) \/ (line.origin = "Addition" /\ rev) ->
            <<"-">> \o line.content
      [] line.origin = "Header" -> <<>>

\* an iteration that ends every line with a newline of its own
HunkLineText_AlwaysNewline(line, rev) == HunkLineEmit(line, rev) \o <<NL>>

\* one iteration of the loop over hunk.lines in generate_hunk_patch
HunkLineText(line, rev) ==
    HunkLineEmit(line, rev)
    \o (IF ~EndsWithNewline(line.content) THEN <<NL>> ELSE <<>>)

RECURSIVE HunkBody(_, _)
HunkBody(lines, rev) ==
    IF lines = <<>> THEN <<>>
    ELSE HunkLineText(Head(lines), rev) \o HunkBody(Tail(lines), rev)

\* a hunk patch whose header exchanges the starts but not the counts
generate_hunk_patch_StartsOnly(file_path, h, rev) ==
    FileHeader(file_path)
    \o (IF rev THEN HunkHeader(h.new_start, h.old_lines, h.old_start, h.new_lines)
               ELSE HunkHeader(h.old_start, h.old_lines, h.new_start, h.new_lines))
    \o HunkBody(h.lines, rev)

generate_hunk_patch(file_path, h, rev) ==
    FileHeader(file_path)
    \o (IF rev THEN HunkHeader(h.new_start, h.new_lines, h.old_start, h.old_lines)
               ELSE HunkHeader(h.old_start, h.old_lines, h.new_start, h.new_lines))
    \o HunkBody(h.lines, rev)

\* a match that omits the additions that are not selected
LineArm_OmitUnselected(line, rev, is_selected) ==
    CASE line.origin = "Context" ->
            [old |-> 1, new |-> 1, out |-> << <<" ">> \o line.content >>]
      [] (line.origin = "Addition" /\ ~rev /\ is_selected)
         \/ (line.origin = "Deletion" /\ rev /\ is_selected) ->
            [old |-> 0, new |-> 1, out |-> << <<"+">> \o line.content >>]
      [] (line.origin = "Addition" /\ ~rev /\ ~is_selected)
         \/ (line.origin = "Deletion" /\ rev /\ ~is_selected) ->
            [old |-> 0, new |-> 0, out |-> <<>>]
      [] (line.origin = "Deletion" /\ ~rev /\ is_selected)
         \/ (line.origin = "Addition" /\ rev /\ is_selected) ->
            [old |-> 1, new |-> 0, out |-> << <<"-">> \o line.content >>]
      [] (line.origin = "Deletion" /\ ~rev /\ ~is_selected)
         \/ (line.origin = "Addition" /\ rev /\ ~is_selected) ->
            [old |-> 1, new |-> 1, out |-> << <<" ">> \o line.content >>]
      [] line.origin = "Header" ->
            [old |-> 0, new |-> 0, out |-> <<>>]

\* the match of generate_line_patch on (origin, reverse, is_selected): the
\* increments of old_count and new_count and the line pushed to lines_output
\* (out is <<>> when nothing is pushed)
LineArm(line, rev, is_selected) ==
    CASE line.origin = "Context" ->
            [old |-> 1, new |-> 1, out |-> << <<" ">> \o line.content >>]
      [] (line.origin = "Addition" /\ ~rev /\ is_selected)
         \/ (line.origin = "Deletion" /\ rev /\ is_selected) ->
            [old |-> 0, new |-> 1, out |-> << <<"+">> \o line.content >>]
      [] (line.origin = "Addition" /\ ~rev /\ ~is_selected)
         \/ (line.origin = "Deletion" /\ rev /\ ~is_selected) ->
            [old |-> 1, new |-> 1, out |-> << <<" ">> \o line.content >>]
      [] (line.origin = "Deletion" /\ ~rev /\ is_selected)
         \/ (line.origin = "Addition" /\ rev /\ is_selected) ->
            [old |-> 1, new |-> 0, out |-> << <<"-">> \o line.content >>]
      [] (line.origin = "Deletion" /\ ~rev /\ ~is_selected)
         \/ (line.origin = "Addition" /\ rev /\ ~is_selected) ->
            [old |-> 1, new |-> 1, out |-> << <<" ">> \o line.content >>]
      [] line.origin = "Header" ->
            [old |-> 0, new |-> 0, out |-> <<>>]

\* a loop that never adds to new_count
RECURSIVE LineWalk_NoNewCount(_, _, _, _, _)
LineWalk_NoNewCount(lines, idx, sel, rev, acc) ==
    IF idx >= Len(lines) THEN acc
    ELSE LET arm == LineArm(lines[idx + 1], rev, idx \in sel)
         IN  LineWalk_NoNewCount(lines, idx + 1, sel, rev,
                      [old_count |-> acc.old_count + arm.old,
                       new_count |-> acc.new_count,
                       lines_output |-> acc.lines_output \o arm.out])

\* the loop `for (idx, line) in hunk.lines.iter().enumerate()`: the state
\* (old_count, new_count, lines_output) after the lines idx.. have been
\* walked from the state acc; idx is the code's 0-based index
RECURSIVE LineWalk(_, _, _, _, _)
LineWalk(lines, idx, sel, rev, acc) ==
    IF idx >= Len(lines) THEN acc
    ELSE LET arm == LineArm(lines[idx + 1], rev, idx \in sel)
         IN  LineWalk(lines, idx + 1, sel, rev,
                      [old_count |-> acc.old_count + arm.old,
                       new_count |-> acc.new_count + arm.new,
                       lines_output |-> acc.lines_output \o arm.out])

\* a loop over lines_output that adds no newline
RECURSIVE LinesOutputText_NoPad(_)
LinesOutputText_NoPad(lines_output) ==
    IF lines_output = <<>> THEN <<>>
    ELSE Head(lines_output) \o LinesOutputText_NoPad(Tail(lines_output))

\* the loop over lines_output: each line, and a newline when it has none
RECURSIVE LinesOutputText(_)
LinesOutputText(lines_output) ==
    IF lines_output = <<>> THEN <<>>
    ELSE Head(lines_output)
         \o (IF ~EndsWithNewline(Head(lines_output)) THEN <<NL>> ELSE <<>>)
         \o LinesOutputText(Tail(lines_output))

generate_line_patch(file_path, h, sel, rev) ==
    LET w == LineWalk(h.lines, 0, sel, rev,
                      [old_count |-> 0, new_count |-> 0, lines_output |-> <<>>])
    IN  FileHeader(file_path)
        \o (IF rev THEN HunkHeader(h.new_start, w.new_count, h.old_start, w.old_count)
                   ELSE HunkHeader(h.old_start, w.old_count, h.new_start, w.new_count))
        \o LinesOutputText(w.lines_output)

-----------------------------------------------------------------------------
(* Reading patch text back, as `git apply` does (git/cli.rs apply_patch      *)
(* pipes the text to `git apply -`)                                         *)

\* the index of the first newline of a text at or after i (0 when there is
\* none)
NextNewline(text, i) ==
    IF \A k \in i..Len(text) : text[k] # NL THEN 0
    ELSE CHOOSE k \in i..Len(text) :
            text[k] = NL /\ \A j \in i..(k - 1) : text[j] # NL

\* the lines of a text, without their newlines; text after the last newline
\* is a line too
RECURSIVE SplitFrom(_, _)
SplitFrom(text, i) ==
    IF i > Len(text) THEN <<>>
    ELSE IF NextNewline(text, i) = 0 THEN <<SubSeq(text, i, Len(text))>>
    ELSE <<SubSeq(text, i, NextNewline(text, i) - 1)>>
         \o SplitFrom(text, NextNewline(text, i) + 1)

SplitLines(text) == SplitFrom(text, 1)

IsDigit(c) == c \in {"0", "1", "2", "3", "4", "5", "6", "7", "8", "9"}

DigitValue(c) == CASE c = "0" -> 0 [] c = "1" -> 1 [] c = "2" -> 2 [] c = "3" -> 3
                   [] c = "4" -> 4 [] c = "5" -> 5 [] c = "6" -> 6 [] c = "7" -> 7
                   [] c = "8" -> 8 [] c = "9" -> 9

\* the first index >= i of s that holds no digit
RECURSIVE DigitsEnd(_, _)
DigitsEnd(s, i) == IF i <= Len(s) /\ IsDigit(s[i]) THEN DigitsEnd(s, i + 1) ELSE i

\* the number written by the digits s[i..j-1]
RECURSIVE ParseDigits(_, _, _, _)
ParseDigits(s, i, j, acc) ==
    IF i >= j THEN acc ELSE ParseDigits(s, i + 1, j, acc * 10 + DigitValue(s[i]))

StartsWith(s, pre) == Len(s) >= Len(pre) /\ SubSeq(s, 1, Len(pre)) = pre

\* "@@ -a,b +c,d @@": the four numbers, or ok = FALSE
ParseHunkHeader(line) ==
    LET bad == [ok |-> FALSE, old_start |-> 0, old_count |-> 0,
                new_start |-> 0, new_count |-> 0, rest |-> <<>>]
        a1 == 5
        a2 == DigitsEnd(line, a1)
        b1 == a2 + 1
        b2 == DigitsEnd(line, b1)
        c1 == b2 + 2
        c2 == DigitsEnd(line, c1)
        d1 == c2 + 1
        d2 == DigitsEnd(line, d1)
    IN  IF /\ StartsWith(line, <<"@", "@", " ", "-">>)
           /\ a2 > a1 /\ a2 <= Len(line) /\ line[a2] = ","
           /\ b2 > b1 /\ b2 + 1 <= Len(line) /\ line[b2] = " " /\ line[b2 + 1] = "+"
           /\ c2 > c1 /\ c2 <= Len(line) /\ line[c2] = ","
           /\ d2 > d1 /\ d2 + 2 <= Len(line)
           /\ SubSeq(line, d2, d2 + 2) = <<" ", "@", "@">>
        THEN [ok |-> TRUE,
              old_start |-> ParseDigits(line, a1, a2, 0),
              old_count |-> ParseDigits(line, b1, b2, 0),
              new_start |-> ParseDigits(line, c1, c2, 0),
              new_count |-> ParseDigits(line, d1, d2, 0),
              rest |-> SubSeq(line, d2 + 3, Len(line))]
        ELSE bad

\* the number of the lines that begin with one of the characters cs
RECURSIVE CountPrefixed(_, _)
CountPrefixed(lines, cs) ==
    IF lines = <<>> THEN 0
    ELSE (IF Head(lines) # <<>> /\ Head(lines)[1] \in cs THEN 1 ELSE 0)
         + CountPrefixed(Tail(lines), cs)

\* the index of the n-th newline of a text at or after i (0 when there is none)
NthNewline(text, i, n) ==
    IF Cardinality({k \in i..Len(text) : text[k] = NL}) < n THEN 0
    ELSE CHOOSE k \in i..Len(text) :
            text[k] = NL /\ Cardinality({j \in i..k : text[j] = NL}) = n

\* a patch text as its parts: two file-header lines, the hunk header, the body
PatchHeaderLine(text) == SplitLines(text)[3]
PatchHeader(text) == ParseHunkHeader(PatchHeaderLine(text))
PatchBodyLines(text) == SubSeq(SplitLines(text), 4, Len(SplitLines(text)))
PatchBodyText(text) == SubSeq(text, NthNewline(text, 1, 3) + 1, Len(text))

-----------------------------------------------------------------------------
(* The synthesizer called on every hunk of a bounded set (SpecPatch) *)

\* the path handed to the synthesizer
Path == <<"f">>

\* line contents: one ending with a newline, one (a file's last line) without,
\* and the empty String
Contents == {<<"a", NL>>, <<"b">>, <<>>}

\* the content of the engine's line that follows a last line without a
\* newline (markers '=', '<', '>'): "\n\\ No newline at end of file\n"
EofnlContent ==
    <<NL, "\\", " ", "N", "o", " ", "n", "e", "w", "l", "i", "n", "e", " ",
      "a", "t", " ", "e", "n", "d", " ", "o", "f", " ", "f", "i", "l", "e", NL>>

IsEofnl(line) == line.content = EofnlContent

\* the lines a hunk is made of: every origin with every content, and the
\* no-newline line, which parse_diff gives the origin Context
LineKinds ==
    [origin : DiffLineType, content : Contents]
    \cup {[origin |-> "Context", content |-> EofnlContent]}

LineSeqs == UNION {[1..n -> LineKinds] : n \in 0..MaxLines}

\* the (old_start, new_start) pairs of the hunks
StartPairs == {<<1, 1>>, <<1, 2>>}

RECURSIVE CountOrigin(_, _)
CountOrigin(lines, origins) ==
    IF lines = <<>> THEN 0
    ELSE (IF Head(lines).origin \in origins THEN 1 ELSE 0)
         + CountOrigin(Tail(lines), origins)

OldSideCount(lines) == CountOrigin(lines, {"Context", "Deletion"})
NewSideCount(lines) == CountOrigin(lines, {"Context", "Addition"})

\* the DiffHunk count invariant of git/diff.rs's hunks
CountInvariant(h) ==
    /\ h.old_lines = OldSideCount(h.lines)
    /\ h.new_lines = NewSideCount(h.lines)

\* the number of no-newline lines among the lines
RECURSIVE CountEofnl(_)
CountEofnl(lines) ==
    IF lines = <<>> THEN 0
    ELSE (IF IsEofnl(Head(lines)) THEN 1 ELSE 0) + CountEofnl(Tail(lines))

\* the old_lines and new_lines the engine gives a hunk: it counts the lines
\* of each side, and does not count a no-newline line
EngineOldLines(lines) == OldSideCount(lines) - CountEofnl(lines)
EngineNewLines(lines) == NewSideCount(lines) - CountEofnl(lines)

\* old_lineno / new_lineno as the engine numbers the lines of a hunk
RECURSIVE NumberLines(_, _, _)
NumberLines(kinds, o, n) ==
    IF kinds = <<>> THEN <<>>
    ELSE LET k == Head(kinds)
         IN  CASE IsEofnl(k) ->
                    <<DiffLine(k.origin, k.content, None, None)>>
                    \o NumberLines(Tail(kinds), o, n)
               [] k.origin = "Context" ->
                    <<DiffLine(k.origin, k.content, o, n)>>
                    \o NumberLines(Tail(kinds), o + 1, n + 1)
               [] k.origin = "Addition" ->
                    <<DiffLine(k.origin, k.content, None, n)>>
                    \o NumberLines(Tail(kinds), o, n + 1)
               [] k.origin = "Deletion" ->
                    <<DiffLine(k.origin, k.content, o, None)>>
                    \o NumberLines(Tail(kinds), o + 1, n)
               [] k.origin = "Header" ->
                    <<DiffLine(k.origin, k.content, None, None)>>
                    \o NumberLines(Tail(kinds), o, n)

\* the line classifier at rest
IdleLines ==
    /\ eng_patch = [present |-> FALSE, hunks |-> <<>>] /\ hunk_idx = 0 /\ line_idx = 0
    /\ changes = <<>> /\ spans = <<>> /\ lc_pc = "done"

InitPatch ==
    /\ IdleApp
    /\ IdleParse
    /\ IdleLock
    /\ IdleRecent
    /\ IdleLines
    /\ \E kinds \in LineSeqs, sp \in StartPairs :
            hunk = DiffHunk(sp[1], EngineOldLines(kinds), sp[2], EngineNewLines(kinds),
                            NumberLines(kinds, sp[1], sp[2]))
    /\ selected_lines \in SUBSET (0..(MaxLines - 1))
    /\ reverse \in BOOLEAN
    /\ patch = <<>>
    /\ patch_op = "none"

GenerateHunkPatch ==
    /\ patch_op = "none"
    /\ patch' = generate_hunk_patch(Path, hunk, reverse)
    /\ patch_op' = "generate_hunk_patch"
    /\ UNCHANGED <<hunk, selected_lines, reverse>>
    /\ UNCHANGED <<linesVars, appVars, parseVars, lockVars, recentVars>>

GenerateLinePatch ==
    /\ patch_op = "none"
    /\ patch' = generate_line_patch(Path, hunk, selected_lines, reverse)
    /\ patch_op' = "generate_line_patch"
    /\ UNCHANGED <<hunk, selected_lines, reverse>>
    /\ UNCHANGED <<linesVars, appVars, parseVars, lockVars, recentVars>>

NextPatch == GenerateHunkPatch \/ GenerateLinePatch

SpecPatch == InitPatch /\ [][NextPatch]_vars

-----------------------------------------------------------------------------
(* Claims about the synthesizer, checked under SpecPatch *)

HunkPatchDone == patch_op = "generate_hunk_patch"
LinePatchDone == patch_op = "generate_line_patch"

\* header and body of a patch text agree: the '-' count is the number of
\* body lines prefixed ' ' or '-', the '+' count that of ' ' or '+'
HeaderMatchesBody(text) ==
    /\ PatchHeader(text).ok
    /\ PatchHeader(text).old_count = CountPrefixed(PatchBodyLines(text), {" ", "-"})
    /\ PatchHeader(text).new_count = CountPrefixed(PatchBodyLines(text), {" ", "+"})

\* the 0-based indices of the lines of a hunk with one of the origins
IndicesOf(h, origins) ==
    {i \in 0..(Len(h.lines) - 1) : h.lines[i + 1].origin \in origins}

\* C1: for every hunk, every selection and both values of reverse, the header
\* written by generate_line_patch agrees with its body: the count in the '-'
\* position is the number of body lines prefixed ' ' or '-', the count in the
\* '+' position the number of body lines prefixed ' ' or '+'.
C1_LinePatchHeaderMatchesBody == LinePatchDone => HeaderMatchesBody(patch)

\* C3 as claimed: for every hunk, generate_line_patch with reverse = false and
\* the selection equal to the indices of all Addition lines writes the header
\* counts generate_hunk_patch writes with reverse = false.
C3_SameCountsAsHunkPatch ==
    (LinePatchDone /\ ~reverse /\ selected_lines = IndicesOf(hunk, {"Addition"}))
    => /\ PatchHeader(patch).ok
       /\ PatchHeader(patch).old_count
            = PatchHeader(generate_hunk_patch(Path, hunk, FALSE)).old_count
       /\ PatchHeader(patch).new_count
            = PatchHeader(generate_hunk_patch(Path, hunk, FALSE)).new_count

\* C3 amended: for every hunk that satisfies the count invariant and holds no
\* Deletion line, generate_line_patch with reverse = false and the selection
\* equal to the indices of all Addition lines writes the header counts
\* generate_hunk_patch writes with reverse = false.
C3_SameCountsWithoutDeletions ==
    (/\ LinePatchDone /\ ~reverse
     /\ selected_lines = IndicesOf(hunk, {"Addition"})
     /\ CountInvariant(hunk)
     /\ IndicesOf(hunk, {"Deletion"}) = {})
    => /\ PatchHeader(patch).ok
       /\ PatchHeader(patch).old_count
            = PatchHeader(generate_hunk_patch(Path, hunk, FALSE)).old_count
       /\ PatchHeader(patch).new_count
            = PatchHeader(generate_hunk_patch(Path, hunk, FALSE)).new_count

C3_Witness ==
    /\ LinePatchDone /\ ~reverse
    /\ selected_lines = IndicesOf(hunk, {"Addition"})
    /\ CountInvariant(hunk)
    /\ IndicesOf(hunk, {"Deletion"}) = {}
    /\ Cardinality(IndicesOf(hunk, {"Addition"})) = 2
    /\ IndicesOf(hunk, {"Context"}) # {}

\* the row of the origin x reverse x selected table of generate_line_patch, as
\* the claim states it
TableRow(origin, rev, is_selected) ==
    CASE origin = "Context" -> [prefix |-> " ", old |-> 1, new |-> 1]
      [] is_selected /\ ((origin = "Addition" /\ ~rev) \/ (origin = "Deletion" /\ rev)) ->
            [prefix |-> "+", old |-> 0, new |-> 1]
      [] is_selected /\ ((origin = "Deletion" /\ ~rev) \/ (origin = "Addition" /\ rev)) ->
            [prefix |-> "-", old |-> 1, new |-> 0]
      [] ~is_selected /\ origin \in {"Addition", "Deletion"} ->
            [prefix |-> " ", old |-> 1, new |-> 1]

\* a line's content, and a newline when it has none
Terminated(content) ==
    content \o (IF EndsWithNewline(content) THEN <<>> ELSE <<NL>>)

\* what the table prescribes for the lines idx.. of a hunk: the sums of the
\* increments and the text of the body (a Header line has no row)
RECURSIVE TableWalk(_, _, _, _)
TableWalk(lines, idx, sel, rev) ==
    IF idx >= Len(lines) THEN [old |-> 0, new |-> 0, text |-> <<>>]
    ELSE LET line == lines[idx + 1]
             rest == TableWalk(lines, idx + 1, sel, rev)
         IN  IF line.origin = "Header" THEN rest
             ELSE LET row == TableRow(line.origin, rev, idx \in sel)
                  IN  [old |-> row.old + rest.old, new |-> row.new + rest.new,
                       text |-> <<row.prefix>> \o Terminated(line.content)
                                \o rest.text]

HunkPrefix(origin, rev) ==
    CASE origin = "Context" -> " "
      [] origin = "Addition" -> (IF rev THEN "-" ELSE "+")
      [] origin = "Deletion" -> (IF rev THEN "+" ELSE "-")

\* the body the claim describes: each Context, Addition or Deletion line in
\* hunk order as its prefix and its content (a Header line, on which the claim
\* is silent, as the code writes it)
RECURSIVE ClaimedHunkBody(_, _)
ClaimedHunkBody(lines, rev) ==
    IF lines = <<>> THEN <<>>
    ELSE (IF Head(lines).origin = "Header" THEN HunkLineText(Head(lines), rev)
          ELSE <<HunkPrefix(Head(lines).origin, rev)>>
               \o Terminated(Head(lines).content))
         \o ClaimedHunkBody(Tail(lines), rev)

\* C5: for every hunk and both values of reverse, generate_hunk_patch emits
\* the hunk's lines in hunk order with prefix ' ' for Context, '+' for Addition
\* and '-' for Deletion (exchanged when reverse), followed by the line's
\* content unchanged.
C5_HunkPatchBody ==
    HunkPatchDone => PatchBodyText(patch) = ClaimedHunkBody(hunk.lines, reverse)

C5_Witness ==
    /\ HunkPatchDone /\ reverse
    /\ Len(hunk.lines) = 3
    /\ hunk.lines[1].origin = "Context"
    /\ hunk.lines[2].origin = "Deletion"
    /\ hunk.lines[3].origin = "Addition"
    /\ ~EndsWithNewline(hunk.lines[3].content)

\* C6: the hunk header generate_hunk_patch writes is
\* '@@ -old_start,old_lines +new_start,new_lines @@' with the hunk's own four
\* numbers when reverse = false, and with the old and the new side exchanged
\* (start and count) when reverse = true.
C6_HunkPatchHeader ==
    HunkPatchDone =>
        LET hd == PatchHeader(patch)
        IN  /\ hd.ok /\ hd.rest = <<>>
            /\ <<hd.old_start, hd.old_count, hd.new_start, hd.new_count>>
                 = (IF reverse
                    THEN <<hunk.new_start, hunk.new_lines, hunk.old_start, hunk.old_lines>>
                    ELSE <<hunk.old_start, hunk.old_lines, hunk.new_start, hunk.new_lines>>)

C6_Witness ==
    /\ HunkPatchDone /\ reverse
    /\ hunk.old_start # hunk.new_start
    /\ hunk.old_lines # hunk.new_lines

\* C7: for every hunk that satisfies the count invariant (old_lines =
\* #Context + #Deletion, new_lines = #Context + #Addition) and both values of
\* reverse, the text generate_hunk_patch emits satisfies it too: the header's
\* '-' count is the number of body lines prefixed ' ' or '-', its '+' count
\* the number of body lines prefixed ' ' or '+'.
C7_HunkPatchKeepsCountInvariant ==
    (HunkPatchDone /\ CountInvariant(hunk)) => HeaderMatchesBody(patch)

C7_Witness ==
    /\ HunkPatchDone /\ reverse /\ CountInvariant(hunk)
    /\ Cardinality(IndicesOf(hunk, {"Addition"})) = 2
    /\ Cardinality(IndicesOf(hunk, {"Deletion"})) = 1

-----------------------------------------------------------------------------
(* git/libgit.rs: LibGitOps::line_changes.  The engine's patch of the delta *)
(* is read line by line: a line is its origin marker and its line numbers.  *)

\* the origin markers of the engine's lines: '+', '-', ' ' and, for every
\* other marker, '=' (the no-newline line)
Markers == {"+", "-", " ", "="}

EngLine(origin, old_lineno, new_lineno) ==
    [origin |-> origin, old_lineno |-> old_lineno, new_lineno |-> new_lineno]

\* an unwrap_or that always gives the default
UnwrapOr_Default(opt, default) == default

\* Option::unwrap_or
UnwrapOr(opt, default) == IF opt = None THEN default ELSE opt

LineChange(start_line, end_line, change_type) ==
    [start_line |-> start_line, end_line |-> end_line, change_type |-> change_type]

\* Option<Patch>: Patch::from_diff gives None, or a patch with its hunks
NoPatch == [present |-> FALSE, hunks |-> <<>>]
SomePatch(hunks) == [present |-> TRUE, hunks |-> hunks]

\* patch.num_hunks() (no hunk is looked at when there is no patch) and
\* patch.num_lines_in_hunk(hunk_idx)
NumHunks == IF eng_patch.present THEN Len(eng_patch.hunks) ELSE 0
NumLines == Len(eng_patch.hunks[hunk_idx + 1])
\* patch.line_in_hunk(hunk_idx, i)
LineInHunk(i) == eng_patch.hunks[hunk_idx + 1][i + 1]

\* a loop that consumes the run and leaves end where it started
RECURSIVE ConsumeRun_KeepEnd(_, _, _, _)
ConsumeRun_KeepEnd(m, f, next, end) ==
    IF next < Len(eng_patch.hunks[hunk_idx + 1])
       /\ eng_patch.hunks[hunk_idx + 1][next + 1].origin = m
    THEN ConsumeRun_KeepEnd(m, f, next + 1, end)
    ELSE [next |-> next, end |-> end]

\* the loop `while next < num_lines` that consumes the lines with the marker
\* m from next on: [next, end], end being the last line number seen in the
\* field f ("old_lineno" or "new_lineno")
RECURSIVE ConsumeRun(_, _, _, _)
ConsumeRun(m, f, next, end) ==
    IF next < NumLines /\ LineInHunk(next).origin = m
    THEN ConsumeRun(m, f, next + 1, UnwrapOr(LineInHunk(next)[f], end))
    ELSE [next |-> next, end |-> end]

\* the hunk lines line_idx .. next - 1, which the iteration consumed
Span(next) == [hunk |-> hunk_idx, first |-> line_idx, last |-> next - 1]

\* an arm '+' that takes the deleted lines after the run into one Modified
LcAddition_Absorb ==
    /\ lc_pc = "scan" /\ hunk_idx < NumHunks /\ line_idx < NumLines
    /\ LineInHunk(line_idx).origin = "+"
    /\ LET start == UnwrapOr(LineInHunk(line_idx).new_lineno, 1)
           run == ConsumeRun("+", "new_lineno", line_idx + 1, start)
           del == ConsumeRun("-", "old_lineno", run.next, run.end)
       IN  IF del.next > run.next
           THEN /\ changes' = Append(changes, LineChange(start, del.end, "Modified"))
                /\ spans' = Append(spans, Span(del.next))
                /\ line_idx' = del.next
           ELSE /\ changes' = Append(changes, LineChange(start, run.end, "Added"))
                /\ spans' = Append(spans, Span(run.next))
                /\ line_idx' = run.next
    /\ UNCHANGED <<eng_patch, hunk_idx, lc_pc>>
    /\ UNCHANGED <<patchVars, appVars, parseVars, lockVars, recentVars>>

\* the arm '+' of the match: a run of added lines
LcAddition ==
    /\ lc_pc = "scan" /\ hunk_idx < NumHunks /\ line_idx < NumLines
    /\ LineInHunk(line_idx).origin = "+"
    /\ LET start == UnwrapOr(LineInHunk(line_idx).new_lineno, 1)
           run == ConsumeRun("+", "new_lineno", line_idx + 1, start)
       IN  /\ changes' = Append(changes, LineChange(start, run.end, "Added"))
           /\ spans' = Append(spans, Span(run.next))
           /\ line_idx' = run.next
    /\ UNCHANGED <<eng_patch, hunk_idx, lc_pc>>
    /\ UNCHANGED <<patchVars, appVars, parseVars, lockVars, recentVars>>

\* LcDeletion without the lookahead for additions: the run of deleted lines
\* is always reported as Deleted
LcDeletion_NoMerge ==
    /\ lc_pc = "scan" /\ hunk_idx < NumHunks /\ line_idx < NumLines
    /\ LineInHunk(line_idx).origin = "-"
    /\ LET start == UnwrapOr(LineInHunk(line_idx).old_lineno, 1)
           del == ConsumeRun("-", "old_lineno", line_idx + 1, start)
       IN  /\ changes' = Append(changes, LineChange(start, del.end, "Deleted"))
           /\ spans' = Append(spans, Span(del.next))
           /\ line_idx' = del.next
    /\ UNCHANGED <<eng_patch, hunk_idx, lc_pc>>
    /\ UNCHANGED <<patchVars, appVars, parseVars, lockVars, recentVars>>

\* the arm '-' of the match: a run of deleted lines, and the added lines that
\* directly follow it
LcDeletion ==
    /\ lc_pc = "scan" /\ hunk_idx < NumHunks /\ line_idx < NumLines
    /\ LineInHunk(line_idx).origin = "-"
    /\ LET start == UnwrapOr(LineInHunk(line_idx).old_lineno, 1)
           del == ConsumeRun("-", "old_lineno", line_idx + 1, start)
           has_additions ==
               del.next < NumLines /\ LineInHunk(del.next).origin = "+"
           add == ConsumeRun("+", "new_lineno", del.next, del.end)
       IN  IF has_additions
           THEN /\ changes' = Append(changes, LineChange(start, add.end, "Modified"))
                /\ spans' = Append(spans, Span(add.next))
                /\ line_idx' = add.next
           ELSE /\ changes' = Append(changes, LineChange(start, del.end, "Deleted"))
                /\ spans' = Append(spans, Span(del.next))
                /\ line_idx' = del.next
    /\ UNCHANGED <<eng_patch, hunk_idx, lc_pc>>
    /\ UNCHANGED <<patchVars, appVars, parseVars, lockVars, recentVars>>

\* an arm _ that reports the context line as a range of its own
LcContext_Report ==
    /\ lc_pc = "scan" /\ hunk_idx < NumHunks /\ line_idx < NumLines
    /\ LineInHunk(line_idx).origin \notin {"+", "-"}
    /\ changes' = Append(changes, LineChange(1, 1, "Modified"))
    /\ spans' = Append(spans, Span(line_idx + 1))
    /\ line_idx' = line_idx + 1
    /\ UNCHANGED <<eng_patch, hunk_idx, lc_pc>>
    /\ UNCHANGED <<patchVars, appVars, parseVars, lockVars, recentVars>>

\* an arm _ that leaves line_idx where it is
LcContext_Stay ==
    /\ lc_pc = "scan" /\ hunk_idx < NumHunks /\ line_idx < NumLines
    /\ LineInHunk(line_idx).origin \notin {"+", "-"}
    /\ line_idx' = line_idx
    /\ UNCHANGED <<eng_patch, hunk_idx, changes, spans, lc_pc>>
    /\ UNCHANGED <<patchVars, appVars, parseVars, lockVars, recentVars>>

\* the arm _ of the match: a context line is skipped
LcContext ==
    /\ lc_pc = "scan" /\ hunk_idx < NumHunks /\ line_idx < NumLines
    /\ LineInHunk(line_idx).origin \notin {"+", "-"}
    /\ line_idx' = line_idx + 1
    /\ UNCHANGED <<eng_patch, hunk_idx, changes, spans, lc_pc>>
    /\ UNCHANGED <<patchVars, appVars, parseVars, lockVars, recentVars>>

\* the while loop of a hunk ends: the next hunk of the for loop
LcNextHunk ==
    /\ lc_pc = "scan" /\ hunk_idx < NumHunks /\ line_idx >= NumLines
    /\ hunk_idx' = hunk_idx + 1
    /\ line_idx' = 0
    /\ UNCHANGED <<eng_patch, changes, spans, lc_pc>>
    /\ UNCHANGED <<patchVars, appVars, parseVars, lockVars, recentVars>>

\* no patch (Patch::from_diff gave None) or no hunk left: Ok(changes)
LcReturn ==
    /\ lc_pc = "scan" /\ hunk_idx >= NumHunks
    /\ lc_pc' = "done"
    /\ UNCHANGED <<eng_patch, hunk_idx, line_idx, changes, spans>>
    /\ UNCHANGED <<patchVars, appVars, parseVars, lockVars, recentVars>>

\* the synthesizer at rest
IdlePatch ==
    /\ hunk = DiffHunk(0, 0, 0, 0, <<>>) /\ selected_lines = {}
    /\ reverse = FALSE /\ patch = <<>> /\ patch_op = "none"

\* the engine's numbering of the lines of a hunk that starts at (o, n)
RECURSIVE NumberMarkers(_, _, _)
NumberMarkers(ms, o, n) ==
    IF ms = <<>> THEN <<>>
    ELSE CASE Head(ms) = " " ->
                <<EngLine(" ", o, n)>> \o NumberMarkers(Tail(ms), o + 1, n + 1)
           [] Head(ms) = "+" ->
                <<EngLine("+", None, n)>> \o NumberMarkers(Tail(ms), o, n + 1)
           [] Head(ms) = "-" ->
                <<EngLine("-", o, None)>> \o NumberMarkers(Tail(ms), o + 1, n)
           [] OTHER ->
                <<EngLine(Head(ms), None, None)>> \o NumberMarkers(Tail(ms), o, n)

MarkerSeqs(max) == UNION {[1..n -> Markers] : n \in 1..max}

RECURSIVE CountMarkers(_, _)
CountMarkers(ms, set) ==
    IF ms = <<>> THEN 0
    ELSE (IF Head(ms) \in set THEN 1 ELSE 0) + CountMarkers(Tail(ms), set)

\* the (old_start, new_start) of the first hunk: the two numberings agree, or
\* an earlier change of the file has moved one ahead of the other
ScanStartPairs == {<<1, 1>>, <<3, 1>>, <<1, 3>>}

\* the unchanged lines between two hunks of a file (more than twice the three
\* lines of context)
HunkGap == 7

\* the patches line_changes is run on: none, no hunk, one hunk, two hunks
EnginePatches ==
    {NoPatch, SomePatch(<<>>)}
    \cup {SomePatch(<<NumberMarkers(ms, sp[1], sp[2])>>) :
            ms \in MarkerSeqs(MaxScanLines), sp \in ScanStartPairs}
    \cup {SomePatch(<<NumberMarkers(ms, sp[1], sp[2]),
                      NumberMarkers(ms2,
                          sp[1] + CountMarkers(ms, {" ", "-"}) + HunkGap,
                          sp[2] + CountMarkers(ms, {" ", "+"}) + HunkGap)>>) :
            ms \in MarkerSeqs(MaxScanLines), sp \in ScanStartPairs,
            ms2 \in MarkerSeqs(MaxSecondLines)}

InitLines ==
    /\ IdleApp
    /\ IdleParse
    /\ IdleLock
    /\ IdleRecent
    /\ IdlePatch
    /\ eng_patch \in EnginePatches
    /\ hunk_idx = 0 /\ line_idx = 0
    /\ changes = <<>> /\ spans = <<>>
    /\ lc_pc = "scan"

NextLines == LcAddition \/ LcDeletion \/ LcContext \/ LcNextHunk \/ LcReturn

SpecLines == InitLines /\ [][NextLines]_vars

\* line_changes is synchronous code that nothing suspends: a loop iteration
\* that can be taken is taken
SpecLinesFair == InitLines /\ [][NextLines]_vars /\ WF_vars(NextLines)

-----------------------------------------------------------------------------
(* Claims about line_changes, checked under SpecLines *)

\* the last index of the run of lines with marker m that starts at index i
\* (0-based) of the hunk lines ls
RECURSIVE RunLast(_, _, _)
RunLast(ls, i, m) ==
    IF i + 1 < Len(ls) /\ ls[i + 2].origin = m THEN RunLast(ls, i + 1, m) ELSE i

\* line i (0-based) of ls starts a maximal run of lines with marker m
StartsRun(ls, i, m) ==
    /\ i < Len(ls) /\ ls[i + 1].origin = m
    /\ (i = 0 \/ ls[i].origin # m)

\* the changes whose consumed lines meet the lines first..last of hunk h
ChangesMeeting(h, first, last_) ==
    {n \in 1..Len(spans) :
        spans[n].hunk = h /\ spans[n].first <= last_ /\ spans[n].last >= first}

\* C8: when line_changes has returned, every maximal run of Deletion lines of
\* a hunk that is directly followed by Addition lines has given exactly one
\* LineChange, of type Modified, from the old_lineno of the first deletion to
\* the new_lineno of the last addition that follows, and no other range holds
\* any of these lines.
C8_DeletionsThenAdditionsAreModified ==
    lc_pc = "done" =>
        \A h \in 0..(NumHunks - 1) :
            LET ls == eng_patch.hunks[h + 1]
            IN  \A i \in 0..(Len(ls) - 1) :
                    LET j == RunLast(ls, i, "-")
                        k == RunLast(ls, j + 1, "+")
                    IN  (/\ StartsRun(ls, i, "-")
                         /\ j + 1 < Len(ls) /\ ls[j + 2].origin = "+")
                        => /\ Cardinality(ChangesMeeting(h, i, k)) = 1
                           /\ \A n \in ChangesMeeting(h, i, k) :
                                /\ spans[n] = [hunk |-> h, first |-> i, last |-> k]
                                /\ changes[n] = LineChange(ls[i + 1].old_lineno,
                                                           ls[k + 1].new_lineno,
                                                           "Modified")

\* line 2 of a three-line file replaced: exactly Modified{2,2}
C8_Witness ==
    /\ lc_pc = "done"
    /\ eng_patch = SomePatch(<<NumberMarkers(<<" ", "-", "+", " ">>, 1, 1)>>)
    /\ changes = <<LineChange(2, 2, "Modified")>>

-----------------------------------------------------------------------------
(* The diff engine (libgit2, behind git/libgit.rs diff_file and parse_diff) *)
(* on one file: an edit script from the old lines to the new lines, cut     *)
(* into hunks with three lines of context.                                  *)

\* DiffOptions::new(): context_lines = 3, interhunk_lines = 0
ContextLines == 3
InterhunkLines == 0

ScriptLine(origin, content) == [origin |-> origin, content |-> content]

\* every alignment of old and new: common lines kept, the others deleted
\* and added
RECURSIVE Alignments(_, _)
Alignments(old, new) ==
    IF old = <<>> /\ new = <<>> THEN {<<>>}
    ELSE (IF old # <<>> /\ new # <<>> /\ Head(old) = Head(new)
          THEN {<<ScriptLine("Context", Head(old))>> \o r :
                    r \in Alignments(Tail(old), Tail(new))}
          ELSE {})
         \cup (IF old # <<>>
               THEN {<<ScriptLine("Deletion", Head(old))>> \o r :
                        r \in Alignments(Tail(old), new)}
               ELSE {})
         \cup (IF new # <<>>
               THEN {<<ScriptLine("Addition", Head(new))>> \o r :
                        r \in Alignments(old, Tail(new))}
               ELSE {})

\* within a change the engine emits the deleted lines before the added ones
DeletionsFirst(script) ==
    \A i \in 1..(Len(script) - 1) :
        ~(script[i].origin = "Addition" /\ script[i + 1].origin = "Deletion")

\* the edit scripts the engine may give: the shortest ones (the engine picks
\* one of them; which one is its own business)
EditScripts(old, new) ==
    LET all == {a \in Alignments(old, new) : DeletionsFirst(a)}
    IN  {a \in all : \A b \in all : Len(a) <= Len(b)}

\* the indices of the changed lines of a script at or after i, in order
RECURSIVE ChangesFrom(_, _)
ChangesFrom(script, i) ==
    IF i > Len(script) THEN <<>>
    ELSE (IF script[i].origin # "Context" THEN <<i>> ELSE <<>>)
         \o ChangesFrom(script, i + 1)

\* the hunks as ranges [first, last] of changed lines: changes no more than
\* 2 * context + interhunk unchanged lines apart share a hunk
RECURSIVE GroupChanges(_, _)
GroupChanges(cs, groups) ==
    IF cs = <<>> THEN groups
    ELSE LET c == Head(cs)
             g == groups[Len(groups)]
         IN  IF groups # <<>> /\ c - g.last - 1 <= 2 * ContextLines + InterhunkLines
             THEN GroupChanges(Tail(cs),
                               [groups EXCEPT ![Len(groups)].last = c])
             ELSE GroupChanges(Tail(cs),
                               Append(groups, [first |-> c, last |-> c]))

Max(a, b) == IF a >= b THEN a ELSE b
Min(a, b) == IF a <= b THEN a ELSE b

\* the hunk of the changes first..last of a script: three lines of context
\* on each side, the start lines and the counts of each side
EngineHunk(script, g) ==
    LET lo == Max(1, g.first - ContextLines)
        hi == Min(Len(script), g.last + ContextLines)
        before == SubSeq(script, 1, lo - 1)
        body == SubSeq(script, lo, hi)
        old_lines == CountOrigin(body, {"Context", "Deletion"})
        new_lines == CountOrigin(body, {"Context", "Addition"})
        old_before == CountOrigin(before, {"Context", "Deletion"})
        new_before == CountOrigin(before, {"Context", "Addition"})
        old_start == IF old_lines = 0 THEN old_before ELSE old_before + 1
        new_start == IF new_lines = 0 THEN new_before ELSE new_before + 1
    IN  DiffHunk(old_start, old_lines, new_start, new_lines,
                 NumberLines(body, old_before + 1, new_before + 1))

EngineHunks(script) ==
    LET groups == GroupChanges(ChangesFrom(script, 1), <<>>)
    IN  [k \in 1..Len(groups) |-> EngineHunk(script, groups[k])]

\* git/diff.rs DiffFile and DiffOutput, as parse_diff builds them
DiffFile(old_path, new_path, hunks, is_binary) ==
    [old_path |-> old_path, new_path |-> new_path, hunks |-> hunks,
     is_binary |-> is_binary]

\* the DiffOutputs the engine and parse_diff may give for the file at path
\* between old and new: no delta when the two are equal
DiffOutputs(path_, old, new) ==
    IF old = new THEN {[files |-> <<>>]}
    ELSE {[files |-> <<DiffFile(path_, path_, EngineHunks(script), FALSE)>>] :
            script \in EditScripts(old, new)}

-----------------------------------------------------------------------------
(* git/cli.rs apply_patch: `git apply [--cached] [--reverse] -` reads the   *)
(* patch text from stdin and applies it to the file's lines in the index    *)
(* (--cached) or in the working tree.                                       *)

\* what git writes to stderr when it refuses a patch
CorruptPatch == "error: corrupt patch"
PatchFailed == "error: patch does not apply"
NoSuchFile == "error: does not exist"

\* the state of the scan of a hunk's body: the lines still owed to each side,
\* the context lines before the first and after the last change, whether a
\* line was deleted or added, the body lines taken, and whether it is corrupt
FragmentStart(hd) ==
    [oldlines |-> hd.old_count, newlines |-> hd.new_count,
     leading |-> 0, trailing |-> 0, changed |-> FALSE, taken |-> <<>>,
     corrupt |-> FALSE]

\* the loop of the hunk parser over the body lines from line i on: it stops
\* when both sides have their lines; a line a side is not owed, or an unknown
\* first character, makes the patch corrupt
RECURSIVE ParseFragment(_, _, _)
ParseFragment(lines, i, st) ==
    IF st.corrupt \/ (st.oldlines = 0 /\ st.newlines = 0) \/ i > Len(lines) THEN st
    ELSE LET line == lines[i]
             c == IF line = <<>> THEN " " ELSE line[1]
             text == IF line = <<>> THEN <<>> ELSE Tail(line)
         IN  CASE c = " " ->
                    IF st.oldlines = 0 \/ st.newlines = 0
                    THEN [st EXCEPT !.corrupt = TRUE]
                    ELSE ParseFragment(lines, i + 1,
                            [st EXCEPT !.oldlines = @ - 1, !.newlines = @ - 1,
                                       !.leading = IF st.changed THEN @ ELSE @ + 1,
                                       !.trailing = @ + 1,
                                       !.taken = Append(@, <<" ", text>>)])
               [] c = "-" ->
                    IF st.oldlines = 0
                    THEN [st EXCEPT !.corrupt = TRUE]
                    ELSE ParseFragment(lines, i + 1,
                            [st EXCEPT !.oldlines = @ - 1, !.changed = TRUE,
                                       !.trailing = 0,
                                       !.taken = Append(@, <<"-", text>>)])
               [] c = "+" ->
                    IF st.newlines = 0
                    THEN [st EXCEPT !.corrupt = TRUE]
                    ELSE ParseFragment(lines, i + 1,
                            [st EXCEPT !.newlines = @ - 1, !.changed = TRUE,
                                       !.trailing = 0,
                                       !.taken = Append(@, <<"+", text>>)])
               [] c = "\\" ->
                    IF Len(line) < 11 \/ line[2] # " "
                    THEN [st EXCEPT !.corrupt = TRUE]
                    ELSE ParseFragment(lines, i + 1, st)
               [] OTHER -> [st EXCEPT !.corrupt = TRUE]

\* the lines of one side of the body: those with one of the marks
RECURSIVE SideLines(_, _)
SideLines(taken, marks) ==
    IF taken = <<>> THEN <<>>
    ELSE (IF Head(taken)[1] \in marks THEN <<Head(taken)[2] \o <<NL>> >> ELSE <<>>)
         \o SideLines(Tail(taken), marks)

\* the place a candidate position p has in the search from the line hint:
\* the hint itself, then one further, one nearer, two further, ...
SearchRank(p, hint) == IF p >= hint THEN 2 * (p - hint) ELSE 2 * (hint - p) + 1

\* git exits with a non-zero status and leaves the file as it is
Refuse(image, msg) == [ok |-> FALSE, lines |-> image, stderr |-> msg]

\* the file with n lines after the first pos replaced by the post-image
Splice(image, pos, n, postimage) ==
    [ok |-> TRUE,
     lines |-> SubSeq(image, 1, pos) \o postimage
               \o SubSeq(image, pos + n + 1, Len(image)),
     stderr |-> ""]

\* the positions (lines before the hunk) at which the pre-image is found
FoundAt(image, preimage, match_beginning, match_end) ==
    {q \in 0..(Len(image) - Len(preimage)) :
        /\ SubSeq(image, q + 1, q + Len(preimage)) = preimage
        /\ (match_beginning => q = 0)
        /\ (match_end => q + Len(preimage) = Len(image))}

\* where the search starts: line newpos - 1, or the end the hunk must match
Hint(image, preimage, newpos, match_beginning, match_end) ==
    IF match_beginning THEN 0
    ELSE IF match_end THEN Len(image) - Len(preimage)
    ELSE Min(IF newpos = 0 THEN 0 ELSE newpos - 1, Len(image))

\* the hunk applied at the position found that the search meets first
Place(image, preimage, postimage, found, hint) ==
    IF found = {} THEN Refuse(image, PatchFailed)
    ELSE Splice(image,
                CHOOSE q \in found :
                    \A r \in found : SearchRank(q, hint) <= SearchRank(r, hint),
                Len(preimage), postimage)

\* a hunk that begins at line 0 or 1 must match at the beginning of the file,
\* one without trailing context at its end
ApplyImages(image, preimage, postimage, oldpos, newpos, trailing) ==
    Place(image, preimage, postimage,
          FoundAt(image, preimage, oldpos = 0 \/ oldpos = 1, trailing = 0),
          Hint(image, preimage, newpos, oldpos = 0 \/ oldpos = 1, trailing = 0))

\* the scanned hunk: corrupt when a side did not get its lines or nothing
\* changes; with the reverse flag the two sides change places
ApplyScanned(image, hd, frag, known, apply_in_reverse) ==
    IF frag.corrupt \/ frag.oldlines # 0 \/ frag.newlines # 0 \/ ~frag.changed
    THEN Refuse(image, CorruptPatch)
    ELSE IF ~known
    THEN Refuse(image, NoSuchFile)
    ELSE IF apply_in_reverse
    THEN ApplyImages(image, SideLines(frag.taken, {" ", "+"}),
                     SideLines(frag.taken, {" ", "-"}),
                     hd.new_start, hd.old_start, frag.trailing)
    ELSE ApplyImages(image, SideLines(frag.taken, {" ", "-"}),
                     SideLines(frag.taken, {" ", "+"}),
                     hd.old_start, hd.new_start, frag.trailing)

\* the hunk header, then the scan of the body
ApplyFragment(image, lines, hd, known, apply_in_reverse) ==
    IF ~hd.ok THEN Refuse(image, CorruptPatch)
    ELSE ApplyScanned(image, hd, ParseFragment(lines, 4, FragmentStart(hd)),
                      known, apply_in_reverse)

\* the "--- " and "+++ " lines of the file header, then the hunk
ApplyLines(image, lines, file_path, apply_in_reverse) ==
    IF \/ Len(lines) < 3
       \/ ~StartsWith(lines[1], <<"-", "-", "-", " ">>)
       \/ ~StartsWith(lines[2], <<"+", "+", "+", " ">>)
    THEN Refuse(image, CorruptPatch)
    ELSE ApplyFragment(image, lines, ParseHunkHeader(lines[3]),
                       lines[1] = <<"-", "-", "-", " ", "a", "/">> \o file_path,
                       apply_in_reverse)

\* `git apply` of a patch text to the lines of the file: [ok, lines, stderr]
GitApply(text, file_path, image, apply_in_reverse) ==
    IF text = <<>> \/ ~EndsWithNewline(text) THEN Refuse(image, CorruptPatch)
    ELSE ApplyLines(image, SplitLines(text), file_path, apply_in_reverse)

-----------------------------------------------------------------------------
(* commands/workspace.rs: stage_hunk, unstage_hunk, stage_lines and        *)
(* discard_hunk.  Each holds the lock on state.current_repo from its first *)
(* line to its return, so a command is one step.  The repository holds one *)
(* tracked file, Path; OtherPath names no file.                            *)

\* the most lines the tracked file has in HEAD, index and working tree
MaxFileLines == 2
\* the largest hunk_index and the largest line index a caller passes
MaxHunkIndex == 1
MaxLineIndex == 2

OtherPath == <<"g">>
Paths == {Path, OtherPath}
\* the text "a\nb\na\n..." of MaxFileLines lines
FullText == [i \in 1..MaxFileLines |-> IF i % 2 = 1 THEN <<"a", NL>> ELSE <<"b", NL>>]

\* the lines of a text at the positions keep, in order
RECURSIVE KeepLines(_, _, _)
KeepLines(text, i, keep) ==
    IF i > Len(text) THEN <<>>
    ELSE (IF i \in keep THEN <<text[i]>> ELSE <<>>) \o KeepLines(text, i + 1, keep)

\* the contents of the tracked file: FullText with any of its lines left out
FileImages == {KeepLines(FullText, 1, keep) : keep \in SUBSET (1..MaxFileLines)}
HunkIndices == 0..MaxHunkIndex
LineIndexSets == SUBSET (0..MaxLineIndex)

\* Result<(), AppError>
Ok == [ok |-> TRUE, kind |-> "Ok", msg |-> ""]
General(msg) == [ok |-> FALSE, kind |-> "General", msg |-> msg]
GitCli(msg) == [ok |-> FALSE, kind |-> "GitCli", msg |-> msg]

\* LibGitOps::diff_file: the diff of the path between HEAD and index (staged)
\* or between index and working tree; the pathspec of a path that names no
\* file selects no delta
diff_file(path_, staged) ==
    IF path_ # Path THEN {[files |-> <<>>]}
    ELSE IF staged THEN DiffOutputs(path_, head, index)
    ELSE DiffOutputs(path_, index, workdir)

\* a clamping lookup: the last element for an index past the end
Get_Clamped(v, i) ==
    IF v = <<>> THEN [present |-> FALSE, value |-> <<>>]
    ELSE [present |-> TRUE, value |-> v[Min(i, Len(v) - 1) + 1]]

\* Vec::get with a 0-based index: Some(element) or None
Get(v, i) ==
    IF i < Len(v) THEN [present |-> TRUE, value |-> v[i + 1]]
    ELSE [present |-> FALSE, value |-> <<>>]

\* diff.files.first().ok_or(..)? and file.hunks.get(hunk_index).ok_or(..)?
SelectHunk(diff, hunk_index) ==
    IF ~Get(diff.files, 0).present
    THEN [result |-> General("No diff found for file"), hunk |-> <<>>]
    ELSE IF ~Get(diff.files[1].hunks, hunk_index).present
    THEN [result |-> General("Hunk index out of range"), hunk |-> <<>>]
    ELSE [result |-> Ok, hunk |-> Get(diff.files[1].hunks, hunk_index).value]

\* an apply_patch that reports a failure in words of its own
apply_patch_OwnWords(text, cached, apply_reverse) ==
    LET r == GitApply(text, Path, IF cached THEN index ELSE workdir, apply_reverse)
    IN  [result |-> IF r.ok THEN Ok ELSE GitCli("git apply failed"),
         index |-> IF cached THEN r.lines ELSE index,
         workdir |-> IF cached THEN workdir ELSE r.lines]

\* GitRepository::apply_patch -> cli::apply_patch: one run of
\* `git apply [--cached] [--reverse] -`; Ok on exit status 0, GitCli(stderr)
\* otherwise.  --cached patches the index, else the working tree.
apply_patch(text, cached, apply_reverse) ==
    LET r == GitApply(text, Path, IF cached THEN index ELSE workdir, apply_reverse)
    IN  [result |-> IF r.ok THEN Ok ELSE GitCli(r.stderr),
         index |-> IF cached THEN r.lines ELSE index,
         workdir |-> IF cached THEN workdir ELSE r.lines]

\* a command as it is called, with the repository as it finds it
Call(cmd, path_, hunk_index, line_indices) ==
    [cmd |-> cmd, path |-> path_, hunk_index |-> hunk_index,
     line_indices |-> line_indices,
     before |-> [head |-> head, index |-> index, workdir |-> workdir]]

\* the record of a finished command
Finished(call, diffed, diff, synthesized, text, applies, result) ==
    [cmd |-> call.cmd, path |-> call.path, hunk_index |-> call.hunk_index,
     line_indices |-> call.line_indices, before |-> call.before,
     diffed |-> diffed, diff |-> diff,
     synthesized |-> synthesized, patch |-> text,
     applies |-> applies, result |-> result]

\* a return through `?` before a patch exists
Return(call, diffed, diff, result) ==
    /\ last' = Finished(call, diffed, diff, FALSE, <<>>, 0, result)
    /\ UNCHANGED <<index, workdir>>

\* the return of apply_patch's Result after the patch was piped to git
ApplyAndReturn(call, diff, text, cached, apply_reverse) ==
    LET r == apply_patch(text, cached, apply_reverse)
    IN  /\ Len(r.index) <= MaxFileLines /\ Len(r.workdir) <= MaxFileLines
        /\ index' = r.index
        /\ workdir' = r.workdir
        /\ last' = Finished(call, TRUE, diff, TRUE, text, 1, r.result)

\* history: a stage_hunk that returned Ok, then an unstage_hunk of the same
\* path that reached its apply
Observe(rt, l) ==
    IF l.cmd = "stage_hunk" /\ l.result.ok
    THEN [phase |-> "staged", path |-> l.path, index0 |-> l.before.index]
    ELSE IF l.cmd = "unstage_hunk" /\ rt.phase = "staged" /\ l.applies = 1
            /\ l.path = rt.path
    THEN [phase |-> "unstaged", path |-> rt.path, index0 |-> rt.index0]
    ELSE [phase |-> "idle"]

stage_hunk ==
    /\ \E path_ \in Paths, hunk_index \in HunkIndices :
         LET call == Call("stage_hunk", path_, hunk_index, {})
         IN  IF current_repo = "None"
             THEN Return(call, FALSE, [files |-> <<>>], General("No repository opened"))
             ELSE \E diff \in diff_file(path_, FALSE) :
                    IF ~SelectHunk(diff, hunk_index).result.ok
                    THEN Return(call, TRUE, diff, SelectHunk(diff, hunk_index).result)
                    ELSE ApplyAndReturn(call, diff,
                            generate_hunk_patch(path_, SelectHunk(diff, hunk_index).hunk, FALSE),
                            TRUE, FALSE)
    /\ round_trip' = Observe(round_trip, last')
    /\ UNCHANGED <<current_repo, head, patchVars, linesVars, parseVars, lockVars, recentVars>>

unstage_hunk ==
    /\ \E path_ \in Paths, hunk_index \in HunkIndices :
         LET call == Call("unstage_hunk", path_, hunk_index, {})
         IN  IF current_repo = "None"
             THEN Return(call, FALSE, [files |-> <<>>], General("No repository opened"))
             ELSE \E diff \in diff_file(path_, TRUE) :
                    IF ~SelectHunk(diff, hunk_index).result.ok
                    THEN Return(call, TRUE, diff, SelectHunk(diff, hunk_index).result)
                    ELSE ApplyAndReturn(call, diff,
                            generate_hunk_patch(path_, SelectHunk(diff, hunk_index).hunk, TRUE),
                            TRUE, TRUE)
    /\ round_trip' = Observe(round_trip, last')
    /\ UNCHANGED <<current_repo, head, patchVars, linesVars, parseVars, lockVars, recentVars>>

stage_lines ==
    /\ \E path_ \in Paths, hunk_index \in HunkIndices, line_indices \in LineIndexSets :
         LET call == Call("stage_lines", path_, hunk_index, line_indices)
         IN  IF current_repo = "None"
             THEN Return(call, FALSE, [files |-> <<>>], General("No repository opened"))
             ELSE \E diff \in diff_file(path_, FALSE) :
                    IF ~SelectHunk(diff, hunk_index).result.ok
                    THEN Return(call, TRUE, diff, SelectHunk(diff, hunk_index).result)
                    ELSE ApplyAndReturn(call, diff,
                            generate_line_patch(path_, SelectHunk(diff, hunk_index).hunk,
                                                line_indices, FALSE),
                            TRUE, FALSE)
    /\ round_trip' = Observe(round_trip, last')
    /\ UNCHANGED <<current_repo, head, patchVars, linesVars, parseVars, lockVars, recentVars>>

discard_hunk ==
    /\ \E path_ \in Paths, hunk_index \in HunkIndices :
         LET call == Call("discard_hunk", path_, hunk_index, {})
         IN  IF current_repo = "None"
             THEN Return(call, FALSE, [files |-> <<>>], General("No repository opened"))
             ELSE \E diff \in diff_file(path_, FALSE) :
                    IF ~SelectHunk(diff, hunk_index).result.ok
                    THEN Return(call, TRUE, diff, SelectHunk(diff, hunk_index).result)
                    ELSE ApplyAndReturn(call, diff,
                            generate_hunk_patch(path_, SelectHunk(diff, hunk_index).hunk, TRUE),
                            FALSE, TRUE)
    /\ round_trip' = Observe(round_trip, last')
    /\ UNCHANGED <<current_repo, head, patchVars, linesVars, parseVars, lockVars, recentVars>>

\* AppState::new leaves current_repo None; after open_repo it holds the
\* repository, whose tracked file has any lines in HEAD, index and tree
Init ==
    /\ IdlePatch
    /\ IdleLines
    /\ IdleParse
    /\ IdleLock
    /\ IdleRecent
    /\ \/ /\ current_repo = "None"
          /\ head = <<>> /\ index = <<>> /\ workdir = <<>>
       \/ /\ current_repo = "Some"
          /\ head \in FileImages
          /\ index \in FileImages
          /\ workdir \in FileImages
    /\ last = [cmd |-> "none"]
    /\ round_trip = [phase |-> "idle"]

Next == stage_hunk \/ unstage_hunk \/ stage_lines \/ discard_hunk

Spec == Init /\ [][Next]_vars

-----------------------------------------------------------------------------
(* Claims about the hunk commands, checked under Spec *)

HunkCommands == {"stage_hunk", "unstage_hunk", "stage_lines", "discard_hunk"}

\* C2: a stage_hunk that applied its patch to the index, followed by an
\* unstage_hunk of the same path that applied the reverse patch of the staged
\* hunk with the reverse flag, leaves the index as it was before the
\* stage_hunk.
C2_StageThenUnstageRestoresIndex ==
    round_trip.phase = "unstaged" => index = round_trip.index0

\* the line indices of a call that are no index of a line of the hunk it chose
InvalidLineIndices(l) ==
    {i \in l.line_indices : i >= Len(l.diff.files[1].hunks[l.hunk_index + 1].lines)}

\* C9: a stage_lines that found its hunk and was given a line index that is
\* no index of a line of that hunk returns an InvalidLineSelection error and
\* pipes no patch to git.
C9_InvalidLineIndexIsRejected ==
    (/\ last.cmd = "stage_lines" /\ last.diffed
     /\ SelectHunk(last.diff, last.hunk_index).result.ok
     /\ InvalidLineIndices(last) # {})
    => /\ ~last.result.ok
       /\ last.result.kind = "InvalidLineSelection"
       /\ last.applies = 0

\* the diff of the call's path in the call's comparison mode holds no file:
\* the path names no file, or the two sides compared are equal
NoFileInDiff(l) ==
    \/ l.path # Path
    \/ (IF l.cmd = "unstage_hunk" THEN l.before.head = l.before.index
        ELSE l.before.index = l.before.workdir)

\* no patch was synthesized, git apply was not run, and index and working
\* tree are what they were
NothingDone(l) ==
    /\ ~l.synthesized /\ l.patch = <<>>
    /\ l.applies = 0
    /\ index = l.before.index
    /\ workdir = l.before.workdir

\* C10: each of stage_hunk, unstage_hunk, stage_lines and discard_hunk, run
\* with a repository open, returns the error 'No diff found for file' when
\* the diff of the path in the command's comparison mode holds no file, and
\* the error 'Hunk index out of range' when hunk_index is not less than the
\* number of hunks of the file; either way no patch is synthesized, git apply
\* is not run, and index and working tree are unchanged.
C10_NoDiffAndOutOfRange ==
    (last.cmd \in HunkCommands /\ last.diffed) =>
        /\ NoFileInDiff(last) =>
              /\ last.result = General("No diff found for file")
              /\ NothingDone(last)
        /\ (~NoFileInDiff(last)
            /\ last.hunk_index >= Len(last.diff.files[1].hunks)) =>
              /\ last.result = General("Hunk index out of range")
              /\ NothingDone(last)

C10_Witness ==
    /\ last.cmd = "unstage_hunk" /\ last.diffed
    /\ ~NoFileInDiff(last)
    /\ Len(last.diff.files[1].hunks) = 1
    /\ last.hunk_index = 1
    /\ last.result = General("Hunk index out of range")

-----------------------------------------------------------------------------
(* git/libgit.rs: parse_diff, the engine's diff turned into a DiffOutput.
   One step is one delta of the loop over diff.deltas(). The DiffStats are
   the engine's own numbers and are not followed. *)

MaxParseLines == 3

\* a line of the engine with its content (patch.line_in_hunk)
EngDiffLine(origin, content, old_lineno, new_lineno) ==
    [origin |-> origin, content |-> content,
     old_lineno |-> old_lineno, new_lineno |-> new_lineno]

\* a hunk of the engine: its header numbers (patch.hunk) and its lines
EngHunk(old_start, old_lines, new_start, new_lines, lines) ==
    [old_start |-> old_start, old_lines |-> old_lines,
     new_start |-> new_start, new_lines |-> new_lines, lines |-> lines]

\* a delta of the engine: the binary flags of its two files, and its patch
EngDelta(old_binary, new_binary, eng) ==
    [old_binary |-> old_binary, new_binary |-> new_binary, patch |-> eng]

\* the match on line.origin(): '+', '-', and every other marker
OriginOf_SpaceOnly(marker) ==
    CASE marker = "+" -> "Addition"
      [] marker = "-" -> "Deletion"
      [] marker = " " -> "Context"
      [] OTHER -> "Header"

OriginOf(marker) ==
    CASE marker = "+" -> "Addition"
      [] marker = "-" -> "Deletion"
      [] OTHER -> "Context"

\* lines.push(DiffLine { .. })
ParseLine(line) ==
    DiffLine(OriginOf(line.origin), line.content, line.old_lineno, line.new_lineno)

\* hunks.push(DiffHunk { .. }) after the loop over the lines of the hunk
ParseHunk(h) ==
    DiffHunk(h.old_start, h.old_lines, h.new_start, h.new_lines,
             [i \in 1..Len(h.lines) |-> ParseLine(h.lines[i])])

\* the hunks of a delta: those of its patch, none when there is no patch
ParseHunks(eng) ==
    IF eng.present THEN [k \in 1..Len(eng.hunks) |-> ParseHunk(eng.hunks[k])]
    ELSE <<>>

\* delta.old_file().is_binary() || delta.new_file().is_binary()
IsBinary_Always(delta) == TRUE

IsBinary(delta) == delta.old_binary \/ delta.new_binary

\* one delta of the loop: its patch is asked of the engine whatever its flags
PdDelta ==
    /\ pd_pc = "loop"
    /\ delta_idx < Len(eng_diff)
    /\ requested' = Append(requested, delta_idx)
    /\ files' = Append(files,
                       DiffFile(Path, Path, ParseHunks(eng_diff[delta_idx + 1].patch),
                                IsBinary(eng_diff[delta_idx + 1])))
    /\ delta_idx' = delta_idx + 1
    /\ UNCHANGED <<eng_diff, pd_pc>>
    /\ UNCHANGED <<patchVars, linesVars, appVars, lockVars, recentVars>>

\* Ok(DiffOutput { files, .. })
PdReturn ==
    /\ pd_pc = "loop"
    /\ delta_idx >= Len(eng_diff)
    /\ pd_pc' = "done"
    /\ UNCHANGED <<eng_diff, delta_idx, files, requested>>
    /\ UNCHANGED <<patchVars, linesVars, appVars, lockVars, recentVars>>

(* The engine's output. A hunk is a run of ' ', '+' and '-' lines with at
   least one change. The last line of a side of the file may lack its
   newline; the engine then follows it with one more line, whose marker is
   '=' after ' ', '>' after '-' and '<' after '+'. The engine's old_lines and
   new_lines count the ' ', '-' and '+' lines only. *)

EofnlAfter(m) == CASE m = " " -> "=" [] m = "-" -> ">" [] m = "+" -> "<"

\* a line of the file in the hunk: its marker, and whether it lacks its newline
ParseItems == {" ", "+", "-"} \X BOOLEAN

OnOldSide(m) == m \in {" ", "-"}
OnNewSide(m) == m \in {" ", "+"}

\* a line without newline is the last line of each side of the file it is on
LastOfItsSides(items, i) ==
    \A j \in (i + 1)..Len(items) :
        /\ OnOldSide(items[i][1]) => ~OnOldSide(items[j][1])
        /\ OnNewSide(items[i][1]) => ~OnNewSide(items[j][1])

ItemSeqs(max) ==
    {items \in UNION {[1..n -> ParseItems] : n \in 1..max} :
        /\ \E i \in 1..Len(items) : items[i][1] # " "
        /\ \A i \in 1..Len(items) : items[i][2] => LastOfItsSides(items, i)}

\* the engine's lines of a hunk that starts at (o, n)
RECURSIVE NumberItems(_, _, _)
NumberItems(items, o, n) ==
    IF items = <<>> THEN <<>>
    ELSE LET m == Head(items)[1]
             content == IF Head(items)[2] THEN <<"b">> ELSE <<"a", NL>>
             eofnl == IF Head(items)[2]
                      THEN <<EngDiffLine(EofnlAfter(m), EofnlContent, None, None)>>
                      ELSE <<>>
         IN  CASE m = " " ->
                    <<EngDiffLine(" ", content, o, n)>> \o eofnl
                    \o NumberItems(Tail(items), o + 1, n + 1)
               [] m = "+" ->
                    <<EngDiffLine("+", content, None, n)>> \o eofnl
                    \o NumberItems(Tail(items), o, n + 1)
               [] m = "-" ->
                    <<EngDiffLine("-", content, o, None)>> \o eofnl
                    \o NumberItems(Tail(items), o + 1, n)

RECURSIVE CountItems(_, _)
CountItems(items, set) ==
    IF items = <<>> THEN 0
    ELSE (IF Head(items)[1] \in set THEN 1 ELSE 0) + CountItems(Tail(items), set)

\* the header of the hunk whose first lines are numbered o and n: a side
\* without lines starts at the line before
EngHunkOf(items, o, n) ==
    EngHunk(IF CountItems(items, {" ", "-"}) = 0 THEN o - 1 ELSE o,
            CountItems(items, {" ", "-"}),
            IF CountItems(items, {" ", "+"}) = 0 THEN n - 1 ELSE n,
            CountItems(items, {" ", "+"}),
            NumberItems(items, o, n))

\* the patches of a delta whose files are text: none (an unchanged file), one
\* hunk, or two hunks
TextPatches ==
    {NoPatch}
    \cup {SomePatch(<<EngHunkOf(items, sp[1], sp[2])>>) :
            items \in ItemSeqs(MaxParseLines), sp \in StartPairs}
    \cup {SomePatch(<<EngHunkOf(<<<<m, FALSE>>>>, 1, 1),
                      EngHunkOf(items,
                                1 + CountItems(<<<<m, FALSE>>>>, {" ", "-"}) + HunkGap,
                                1 + CountItems(<<<<m, FALSE>>>>, {" ", "+"}) + HunkGap)>>) :
            m \in {"+", "-"}, items \in ItemSeqs(MaxSecondLines)}

\* the engine makes no hunk for a delta one of whose files is binary
BinaryPatches == {NoPatch, SomePatch(<<>>)}

TextDeltas == {EngDelta(FALSE, FALSE, p) : p \in TextPatches}

BinaryDeltas ==
    {EngDelta(ob, nb, p) : ob \in BOOLEAN, nb \in BOOLEAN, p \in BinaryPatches}
    \ {EngDelta(FALSE, FALSE, p) : p \in BinaryPatches}

\* the deltas that may follow the first one of a diff
LaterDeltas ==
    BinaryDeltas
    \cup {EngDelta(FALSE, FALSE, SomePatch(<<EngHunkOf(<<<<"+", TRUE>>>>, 1, 1)>>))}

EngineDiffs ==
    {<<>>}
    \cup {<<d>> : d \in TextDeltas \cup BinaryDeltas}
    \cup {<<d, e>> : d \in TextDeltas \cup BinaryDeltas, e \in LaterDeltas}

\* what line_changes reads of a patch: the markers and numbers of its lines
LinesOfPatch(eng) ==
    [present |-> eng.present,
     hunks |-> [k \in 1..Len(eng.hunks) |->
                  [i \in 1..Len(eng.hunks[k].lines) |->
                      EngLine(eng.hunks[k].lines[i].origin,
                              eng.hunks[k].lines[i].old_lineno,
                              eng.hunks[k].lines[i].new_lineno)]]]

\* parse_diff and line_changes on one diff of the engine; line_changes is
\* followed on the first delta
InitParse ==
    /\ IdleApp
    /\ IdleLock
    /\ IdleRecent
    /\ IdlePatch
    /\ eng_diff \in EngineDiffs
    /\ delta_idx = 0 /\ files = <<>> /\ requested = <<>> /\ pd_pc = "loop"
    /\ eng_patch = IF eng_diff = <<>> THEN NoPatch ELSE LinesOfPatch(eng_diff[1].patch)
    /\ hunk_idx = 0 /\ line_idx = 0
    /\ changes = <<>> /\ spans = <<>>
    /\ lc_pc = "scan"

NextParse ==
    \/ PdDelta \/ PdReturn
    \/ LcAddition \/ LcDeletion \/ LcContext \/ LcNextHunk \/ LcReturn

SpecParse == InitParse /\ [][NextParse]_vars

\* parse_diff has returned
ParseDone == pd_pc = "done" /\ eng_diff # <<>>

\* the hunks parse_diff has returned, of all the files
ParsedHunks ==
    {files[f].hunks[k] : <<f, k>> \in
        {fk \in (1..Len(files)) \X (1..2) : fk[2] <= Len(files[fk[1]].hunks)}}

\* C11: every hunk parse_diff emits has old_lines = the number of its Context
\* and Deletion lines and new_lines = the number of its Context and Addition
\* lines, the engine's lines with another marker (mapped to Context) included
C11_ParsedHunksKeepCountInvariant ==
    ParseDone => \A h \in ParsedHunks : CountInvariant(h)

\* the files parse_diff has emitted so far that it flagged binary
BinaryFiles == {f \in 1..Len(files) : files[f].is_binary}

\* the deltas whose patch parse_diff has asked of the engine
Requested == {requested[i] : i \in 1..Len(requested)}

\* line_changes has scanned a delta one of whose files is binary
BinaryScanned == lc_pc = "done" /\ eng_diff # <<>> /\ IsBinary(eng_diff[1])

\* C12 as stated: a DiffFile flagged binary has no hunks, none being asked of
\* the engine for its delta, and line_changes emits no LineChange for a binary
\* delta
C12_NoHunksRequestedForBinary ==
    /\ \A f \in BinaryFiles :
            files[f].hunks = <<>> /\ (f - 1) \notin Requested
    /\ BinaryScanned => changes = <<>>

\* C12: a DiffFile flagged binary has no hunks, the patch of its delta having
\* been asked of the engine like that of every delta, and line_changes emits
\* no LineChange for a binary delta
C12_BinaryFilesHaveNoHunks ==
    /\ \A f \in BinaryFiles : files[f].hunks = <<>>
    /\ \A f \in 1..Len(files) : (f - 1) \in Requested
    /\ BinaryScanned => changes = <<>>

C12_Witness ==
    /\ ParseDone /\ BinaryScanned
    /\ BinaryFiles # {}
    /\ \E f \in 1..Len(files) : f \notin BinaryFiles /\ files[f].hunks # <<>>

\* what the mapping of a marker is said to be
ClaimedOrigin(marker) ==
    IF marker = "+" THEN "Addition"
    ELSE IF marker = "-" THEN "Deletion" ELSE "Context"

\* the DiffLines are the engine's lines, one for one and in order
LinesFollowEngine(lines, eng_lines) ==
    /\ Len(lines) = Len(eng_lines)
    /\ \A i \in 1..Len(lines) :
        /\ lines[i].origin = ClaimedOrigin(eng_lines[i].origin)
        /\ lines[i].origin # "Header"
        /\ lines[i].content = eng_lines[i].content
        /\ lines[i].old_lineno = eng_lines[i].old_lineno
        /\ lines[i].new_lineno = eng_lines[i].new_lineno

\* C20: for every hunk of a delta that is not binary parse_diff emits one
\* DiffLine per line of the engine, in the engine's order, '+' as Addition,
\* '-' as Deletion, any other marker as Context, the line numbers copied
\* unchanged, and never a DiffLine of origin Header
C20_ParsedLinesFollowEngine ==
    \A f \in 1..Len(files) :
        ~IsBinary(eng_diff[f]) =>
            /\ Len(files[f].hunks) = Len(eng_diff[f].patch.hunks)
            /\ \A k \in 1..Len(files[f].hunks) :
                    LinesFollowEngine(files[f].hunks[k].lines,
                                      eng_diff[f].patch.hunks[k].lines)

C20_Witness ==
    /\ ParseDone
    /\ \E f \in 1..Len(files) :
        /\ ~IsBinary(eng_diff[f])
        /\ Len(files[f].hunks) = 2
        /\ \E i \in 1..Len(files[f].hunks[2].lines) :
            /\ eng_diff[f].patch.hunks[2].lines[i].origin = "<"
            /\ files[f].hunks[2].lines[i].origin = "Context"
            /\ i > 1 /\ files[f].hunks[2].lines[i - 1].origin = "Addition"

-----------------------------------------------------------------------------
(* The patch synthesizer: empty selections, the shape of the text, newlines *)

\* the body that holds every Context, Addition and Deletion line of the hunk
\* as a context line
RECURSIVE AllContextBody(_)
AllContextBody(lines) ==
    IF lines = <<>> THEN <<>>
    ELSE (IF Head(lines).origin = "Header" THEN <<>>
          ELSE <<" ">> \o Terminated(Head(lines).content))
         \o AllContextBody(Tail(lines))

WellFormedPatch(text) ==
    LET ls == SplitLines(text)
    IN  /\ Len(ls) >= 3
        /\ StartsWith(ls[1], <<"-", "-", "-", " ">>)
        /\ StartsWith(ls[2], <<"+", "+", "+", " ">>)
        /\ ParseHunkHeader(ls[3]).ok
        /\ \A i \in 4..Len(ls) :
            /\ ls[i] # <<>>
            /\ ls[i][1] \in {" ", "+", "-"}
            /\ ~StartsWith(ls[i], <<"-", "-", "-", " ">>)
            /\ ~StartsWith(ls[i], <<"+", "+", "+", " ">>)

\* C14: for every hunk, those with Header lines included, the text of either
\* generator is two file-header lines, one '@@ ... @@' line, and then only
\* body lines that begin with ' ', '+' or '-': no blank or unprefixed line
C14_PatchTextIsWellFormed ==
    patch_op # "none" => WellFormedPatch(patch)

\* what was pushed for a line, and one newline when the content has none
PaddedLine(pushed, content) ==
    pushed \o (IF content # <<>> /\ content[Len(content)] = NL THEN <<>> ELSE <<NL>>)

RECURSIVE PaddedHunkBody(_, _)
PaddedHunkBody(lines, rev) ==
    IF lines = <<>> THEN <<>>
    ELSE PaddedLine(HunkLineEmit(Head(lines), rev), Head(lines).content)
         \o PaddedHunkBody(Tail(lines), rev)

RECURSIVE PaddedLineBody(_, _, _, _)
PaddedLineBody(lines, idx, sel, rev) ==
    IF idx >= Len(lines) THEN <<>>
    ELSE (IF LineArm(lines[idx + 1], rev, idx \in sel).out = <<>> THEN <<>>
          ELSE PaddedLine(LineArm(lines[idx + 1], rev, idx \in sel).out[1],
                          lines[idx + 1].content))
         \o PaddedLineBody(lines, idx + 1, sel, rev)

\* C15: every body line the generators emit ends with a newline: a content
\* that ends with one gets no other, a content that lacks one (the empty
\* content too) gets exactly one
C15_BodyLinesEndWithOneNewline ==
    /\ HunkPatchDone =>
            PatchBodyText(patch) = PaddedHunkBody(hunk.lines, reverse)
    /\ LinePatchDone =>
            PatchBodyText(patch) = PaddedLineBody(hunk.lines, 0, selected_lines, reverse)
    /\ (patch_op # "none" /\ PatchBodyText(patch) # <<>>) =>
            PatchBodyText(patch)[Len(PatchBodyText(patch))] = NL

C15_Witness ==
    /\ LinePatchDone
    /\ Len(hunk.lines) = 3
    /\ hunk.lines[1].origin = "Addition" /\ hunk.lines[1].content = <<>>
    /\ hunk.lines[2].origin = "Context" /\ hunk.lines[2].content = <<"a", NL>>
    /\ hunk.lines[3].origin = "Deletion" /\ hunk.lines[3].content = <<"b">>
    /\ PatchBodyText(patch) = <<" ", NL, " ", "a", NL, " ", "b", NL>>

-----------------------------------------------------------------------------
(* line_changes: the runs that are only additions or only deletions *)

\* C16: when line_changes has returned, every maximal run of Addition lines of
\* a hunk that no Deletion line directly precedes has given exactly one
\* LineChange, of type Added, from the new_lineno of the first line of the run
\* to the new_lineno of its last line
C16_AdditionRunsAreAdded ==
    lc_pc = "done" =>
        \A h \in 0..(NumHunks - 1) :
            LET ls == eng_patch.hunks[h + 1]
            IN  \A i \in 0..(Len(ls) - 1) :
                    LET j == RunLast(ls, i, "+")
                    IN  (StartsRun(ls, i, "+") /\ (i = 0 \/ ls[i].origin # "-"))
                        => /\ Cardinality(ChangesMeeting(h, i, j)) = 1
                           /\ \A n \in ChangesMeeting(h, i, j) :
                                /\ spans[n] = [hunk |-> h, first |-> i, last |-> j]
                                /\ changes[n] = LineChange(ls[i + 1].new_lineno,
                                                           ls[j + 1].new_lineno,
                                                           "Added")

\* lines 2 and 3 added after the first line of a file: exactly Added{2,3}
C16_Witness ==
    /\ lc_pc = "done"
    /\ eng_patch = SomePatch(<<NumberMarkers(<<" ", "+", "+", " ">>, 1, 1)>>)
    /\ changes = <<LineChange(2, 3, "Added")>>

\* C17: when line_changes has returned, every maximal run of Deletion lines of
\* a hunk that is followed by a Context line or by the end of the hunk has
\* given exactly one LineChange, of type Deleted, from the old_lineno of the
\* first line of the run to the old_lineno of its last line
C17_DeletionRunsAreDeleted ==
    lc_pc = "done" =>
        \A h \in 0..(NumHunks - 1) :
            LET ls == eng_patch.hunks[h + 1]
            IN  \A i \in 0..(Len(ls) - 1) :
                    LET j == RunLast(ls, i, "-")
                    IN  (/\ StartsRun(ls, i, "-")
                         /\ (j + 1 = Len(ls) \/ ls[j + 2].origin \notin {"+", "-"}))
                        => /\ Cardinality(ChangesMeeting(h, i, j)) = 1
                           /\ \A n \in ChangesMeeting(h, i, j) :
                                /\ spans[n] = [hunk |-> h, first |-> i, last |-> j]
                                /\ changes[n] = LineChange(ls[i + 1].old_lineno,
                                                           ls[j + 1].old_lineno,
                                                           "Deleted")

\* lines 4 and 5 of a file deleted, at the end of the hunk and before a
\* context line: Deleted{4,5} both times
C17_Witness ==
    /\ lc_pc = "done"
    /\ \E ms \in {<<" ", "-", "-">>, <<" ", "-", "-", " ">>} :
            eng_patch = SomePatch(<<NumberMarkers(ms, 3, 1)>>)
    /\ changes = <<LineChange(4, 5, "Deleted")>>

-----------------------------------------------------------------------------
(* The hunk commands: the one run of git apply *)

\* the flags each command hands to apply_patch
AppliesCached(cmd) == cmd # "discard_hunk"
AppliesReverse(cmd) == cmd \in {"unstage_hunk", "discard_hunk"}

\* what git apply does with the patch of the last command on the file it
\* patches, as that file was when the command was called
ToolOutcome(l) ==
    GitApply(l.patch, Path,
             IF AppliesCached(l.cmd) THEN l.before.index ELSE l.before.workdir,
             AppliesReverse(l.cmd))

\* C19: a command runs git apply at most once; when the run fails the command
\* returns an error that carries git's diagnostic text as it is, and the index
\* and the working tree are as the one failed run left them: nothing is
\* attempted again
C19_ApplyRunsOnceAndErrorsPassThrough ==
    last.cmd \in HunkCommands =>
        /\ last.applies \in {0, 1}
        /\ last.applies = 0 => (~last.result.ok /\ last.result.kind = "General")
        /\ (last.applies = 1 /\ ~ToolOutcome(last).ok) =>
                /\ last.result = GitCli(ToolOutcome(last).stderr)
                /\ index = last.before.index
                /\ workdir = last.before.workdir
        /\ (last.applies = 1 /\ ToolOutcome(last).ok) => last.result = Ok

C19_Witness ==
    /\ last.cmd = "stage_lines"
    /\ last.applies = 1
    /\ last.result = GitCli(CorruptPatch)
    /\ index = last.before.index

-----------------------------------------------------------------------------
(* commands/workspace.rs, commands/repo.rs, state.rs: the commands as tasks
   that run side by side, each an invocation of a command, around the
   tokio Mutex of state.current_repo. A repository is followed only as the
   number of patches applied to it. *)

MaxTasks == 2
MaxVersion == 2

Tasks == 1..MaxTasks

\* the repositories a path may name: the one of Spec, and another
Repos == {"Some", "Other"}

\* the commands of commands/repo.rs that replace state.current_repo
RepoCommands == {"open_repo", "init_repo", "close_repo"}

\* a task that runs no command
AtRest ==
    [cmd |-> "none", pc |-> "idle", path |-> "None",
     seen |-> [repo |-> "None", version |-> 0], stale |-> FALSE, overlap |-> FALSE]

\* the tasks that are between their diff and the return of their apply
Patching == {t \in Tasks : tasks[t].pc \in {"patched", "applied"}}

\* a command is invoked: open_repo and init_repo begin with the repository at
\* their path, every other command with state.current_repo.lock().await
Invoke(t) ==
    /\ tasks[t].pc = "idle"
    /\ \E cmd \in HunkCommands \cup RepoCommands, path_ \in Repos :
         tasks' = [tasks EXCEPT ![t] =
                    IF cmd \in {"open_repo", "init_repo"}
                    THEN [AtRest EXCEPT !.cmd = cmd, !.pc = "opening", !.path = path_]
                    ELSE [AtRest EXCEPT !.cmd = cmd, !.pc = "waiting"]]
    /\ UNCHANGED <<guard, versions, current_repo>>
    /\ UNCHANGED <<head, index, workdir, last, round_trip>>
    /\ UNCHANGED <<patchVars, linesVars, parseVars, recentVars>>

\* open_repo, init_repo: GitRepository::open / init of the path (and the
\* recent list), before the lock is asked for; an Err returns at once
OpenRepository(t) ==
    /\ tasks[t].pc = "opening"
    /\ \/ tasks' = [tasks EXCEPT ![t] = AtRest]
       \/ tasks' = [tasks EXCEPT ![t].pc = "waiting",
                                 ![t].overlap = (Patching \ {t}) # {}]
    /\ UNCHANGED <<guard, versions, current_repo>>
    /\ UNCHANGED <<head, index, workdir, last, round_trip>>
    /\ UNCHANGED <<patchVars, linesVars, parseVars, recentVars>>

\* a lock().await that takes the Mutex whoever holds it
Acquire_Unguarded(t) ==
    /\ tasks[t].pc = "waiting"
    /\ guard' = t
    /\ tasks' = [tasks EXCEPT ![t].pc = "held"]
    /\ UNCHANGED <<versions, current_repo>>
    /\ UNCHANGED <<head, index, workdir, last, round_trip>>
    /\ UNCHANGED <<patchVars, linesVars, parseVars, recentVars>>

\* state.current_repo.lock().await completes: the Mutex was free
Acquire(t) ==
    /\ tasks[t].pc = "waiting"
    /\ guard = 0
    /\ guard' = t
    /\ tasks' = [tasks EXCEPT ![t].pc = "held"]
    /\ UNCHANGED <<versions, current_repo>>
    /\ UNCHANGED <<head, index, workdir, last, round_trip>>
    /\ UNCHANGED <<patchVars, linesVars, parseVars, recentVars>>

\* a hunk command from repo.as_ref().ok_or(..)? to the patch text: an Err of
\* one of the `?` returns and drops the guard
DiffAndSynthesize(t) ==
    /\ tasks[t].pc = "held"
    /\ tasks[t].cmd \in HunkCommands
    /\ \/ /\ tasks' = [tasks EXCEPT ![t] = AtRest]
          /\ guard' = 0
       \/ /\ current_repo # "None"
          /\ tasks' = [tasks EXCEPT ![t].pc = "patched",
                          ![t].seen = [repo |-> current_repo,
                                       version |-> versions[current_repo]]]
          /\ guard' = guard
    /\ UNCHANGED <<versions, current_repo>>
    /\ UNCHANGED <<head, index, workdir, last, round_trip>>
    /\ UNCHANGED <<patchVars, linesVars, parseVars, recentVars>>

\* repo.apply_patch(..).await: git apply runs on the repository the diff was
\* made of, and patches it or fails
ApplyPatch(t) ==
    /\ tasks[t].pc = "patched"
    /\ tasks' = [tasks EXCEPT ![t].pc = "applied",
                    ![t].stale = \/ current_repo # tasks[t].seen.repo
                                 \/ versions[tasks[t].seen.repo] # tasks[t].seen.version]
    /\ \/ versions' = versions
       \/ /\ versions[tasks[t].seen.repo] < MaxVersion
          /\ versions' = [versions EXCEPT ![tasks[t].seen.repo] = @ + 1]
    /\ UNCHANGED <<guard, current_repo>>
    /\ UNCHANGED <<head, index, workdir, last, round_trip>>
    /\ UNCHANGED <<patchVars, linesVars, parseVars, recentVars>>

\* the command returns the Result of apply_patch; the guard is dropped
DropGuard(t) ==
    /\ tasks[t].pc = "applied"
    /\ guard' = 0
    /\ tasks' = [tasks EXCEPT ![t] = AtRest]
    /\ UNCHANGED <<versions, current_repo>>
    /\ UNCHANGED <<head, index, workdir, last, round_trip>>
    /\ UNCHANGED <<patchVars, linesVars, parseVars, recentVars>>

\* *state.current_repo.lock().await = Some(Arc::new(repo)) or None: the
\* assignment under the guard, which the end of the statement drops
ReplaceRepo(t) ==
    /\ tasks[t].pc = "held"
    /\ tasks[t].cmd \in RepoCommands
    /\ current_repo' = IF tasks[t].cmd = "close_repo" THEN "None" ELSE tasks[t].path
    /\ guard' = 0
    /\ tasks' = [tasks EXCEPT ![t] = AtRest]
    /\ UNCHANGED versions
    /\ UNCHANGED <<head, index, workdir, last, round_trip>>
    /\ UNCHANGED <<patchVars, linesVars, parseVars, recentVars>>

InitLock ==
    /\ IdleApp
    /\ IdlePatch
    /\ IdleLines
    /\ IdleParse
    /\ IdleRecent
    /\ guard = 0
    /\ tasks = [t \in Tasks |-> AtRest]
    /\ versions = [r \in Repos |-> 0]

NextLock ==
    \E t \in Tasks :
        \/ Invoke(t) \/ OpenRepository(t) \/ Acquire(t)
        \/ DiffAndSynthesize(t) \/ ApplyPatch(t) \/ DropGuard(t)
        \/ ReplaceRepo(t)

SpecLock == InitLock /\ [][NextLock]_vars

\* the tasks that work under the guard
Holding == {t \in Tasks : tasks[t].pc \in {"held", "patched", "applied"}}

\* C18 as stated: at most one command at a time works on the open repository,
\* the hunk commands keep the hold from before the diff until the apply has
\* returned, and no other command, open_repo and init_repo included, runs
\* between the diff and the apply
C18_NoCommandRunsBetweenDiffAndApply ==
    /\ Cardinality(Holding) <= 1
    /\ \A t \in Holding : guard = t
    /\ \A t \in Patching : current_repo = tasks[t].seen.repo /\ ~tasks[t].stale
    /\ \A u \in Tasks : ~tasks[u].overlap

\* C18: at most one command at a time holds the lock of current_repo, the
\* hunk commands keep it from before the diff until the apply has returned,
\* and between the diff and the apply no other command patches the repository
\* or replaces it: open_repo and init_repo may open their repository
\* meanwhile, but wait for the lock to replace current_repo
C18_OneHolderFromDiffToApply ==
    /\ Cardinality(Holding) <= 1
    /\ \A t \in Holding : guard = t
    /\ \A t \in Patching :
        /\ current_repo = tasks[t].seen.repo /\ ~tasks[t].stale
        /\ tasks[t].pc = "patched" =>
                versions[tasks[t].seen.repo] = tasks[t].seen.version
        /\ \A u \in Tasks \ {t} : tasks[u].pc \in {"idle", "opening", "waiting"}

\* a hunk command has applied its patch while a close_repo and nothing else
\* waited for the lock
C18_Witness ==
    /\ tasks[1].pc = "applied" /\ tasks[1].cmd = "discard_hunk"
    /\ versions[tasks[1].seen.repo] = tasks[1].seen.version + 1
    /\ tasks[1].seen.repo = "Other"
    /\ tasks[2].pc = "waiting" /\ tasks[2].cmd = "close_repo"

-----------------------------------------------------------------------------
(* line_changes: what is merged, the lines of each range, the numbers of a
   range, the end of the scan *)

\* the lines first..last_ (0-based) of ls all carry the marker m
AllMarked(ls, first, last_, m) == \A i \in first..last_ : ls[i + 1].origin = m

\* line i of ls starts a run of additions that no deletion precedes and that
\* a deletion directly follows
AdditionsThenDeletions(ls, i) ==
    /\ StartsRun(ls, i, "+") /\ (i = 0 \/ ls[i].origin # "-")
    /\ RunLast(ls, i, "+") + 1 < Len(ls)
    /\ ls[RunLast(ls, i, "+") + 2].origin = "-"

\* every range holds the lines of its kind: Added only additions, Deleted
\* only deletions, Modified deletions and then additions
RangesHoldTheirKind ==
    \A n \in 1..Len(changes) :
        LET ls == eng_patch.hunks[spans[n].hunk + 1]
            f == spans[n].first
            l == spans[n].last
        IN  CASE changes[n].change_type = "Added" -> AllMarked(ls, f, l, "+")
              [] changes[n].change_type = "Deleted" -> AllMarked(ls, f, l, "-")
              [] changes[n].change_type = "Modified" ->
                    \E j \in f..(l - 1) :
                        AllMarked(ls, f, j, "-") /\ AllMarked(ls, j + 1, l, "+")

RangesHolding(h, i) ==
    {n \in 1..Len(spans) :
        spans[n].hunk = h /\ spans[n].first <= i /\ i <= spans[n].last}

\* C24: when line_changes has returned, every Addition and every Deletion
\* line of every hunk is in exactly one range and no Context line is in any;
\* the ranges come in the order of their first lines, each within one hunk,
\* and a hunk of Context lines only gives no range
C24_RangesPartitionTheChanges ==
    lc_pc = "done" =>
        /\ \A h \in 0..(NumHunks - 1) :
            \A i \in 0..(Len(eng_patch.hunks[h + 1]) - 1) :
                Cardinality(RangesHolding(h, i)) =
                    (IF eng_patch.hunks[h + 1][i + 1].origin \in {"+", "-"} THEN 1 ELSE 0)
        /\ \A n \in 1..Len(spans) :
            /\ spans[n].hunk < NumHunks
            /\ 0 <= spans[n].first /\ spans[n].first <= spans[n].last
            /\ spans[n].last < Len(eng_patch.hunks[spans[n].hunk + 1])
        /\ \A n \in 1..(Len(spans) - 1) :
            \/ spans[n].hunk < spans[n + 1].hunk
            \/ spans[n].hunk = spans[n + 1].hunk /\ spans[n].last < spans[n + 1].first
        /\ Len(changes) = Len(spans)

\* two hunks, the first of context lines only
C24_Witness ==
    /\ lc_pc = "done"
    /\ NumHunks = 2
    /\ AllMarked(eng_patch.hunks[1], 0, Len(eng_patch.hunks[1]) - 1, " ")
    /\ Len(eng_patch.hunks[1]) = 2
    /\ Len(changes) = 2
    /\ spans[1].hunk = 1 /\ spans[2].hunk = 1

\* C25: every LineChange line_changes has emitted has start_line <= end_line
C25_StartNotAfterEnd ==
    \A n \in 1..Len(changes) : changes[n].start_line <= changes[n].end_line

\* a step of the scan of a hunk moves line_idx forward: by one past a context
\* line, to the end of the run it consumed otherwise
ScanAdvances ==
    (lc_pc = "scan" /\ hunk_idx' = hunk_idx /\ lc_pc' = "scan") =>
        /\ line_idx' > line_idx
        /\ line_idx' <= NumLines
        /\ LineInHunk(line_idx).origin \notin {"+", "-"} => line_idx' = line_idx + 1
        /\ LineInHunk(line_idx).origin \in {"+", "-"} =>
                /\ Len(spans') = Len(spans) + 1
                /\ line_idx' = spans'[Len(spans')].last + 1

\* C28: the scan of a hunk ends: every iteration of the loop moves line_idx
\* forward, by one for a Context line and to the end of the consumed run
\* otherwise, line_idx never passes the number of lines of the hunk, and
\* line_changes returns
C28_ScanTerminates ==
    /\ [][ScanAdvances]_vars
    /\ [](hunk_idx < NumHunks => line_idx <= NumLines)
    /\ <>(lc_pc = "done")

C28_Witness ==
    /\ lc_pc = "done"
    /\ NumHunks = 2
    /\ Len(eng_patch.hunks[1]) = 4
    /\ Len(spans) = 3
    /\ hunk_idx = 2

-----------------------------------------------------------------------------
(* The hunk commands: what discard_hunk and unstage_hunk leave behind *)

\* the contents of the lines of a hunk that have one of the origins
RECURSIVE ContentsOf(_, _)
ContentsOf(lines, origins) ==
    IF lines = <<>> THEN <<>>
    ELSE (IF Head(lines).origin \in origins THEN <<Head(lines).content>> ELSE <<>>)
         \o ContentsOf(Tail(lines), origins)

\* the file image with the new side of hunk h put back to its old side, every
\* line outside the hunk as it is
OldSideRestored(image, h) ==
    LET before_ == IF h.new_lines = 0 THEN h.new_start ELSE h.new_start - 1
    IN  SubSeq(image, 1, before_)
        \o ContentsOf(h.lines, {"Context", "Deletion"})
        \o SubSeq(image, before_ + h.new_lines + 1, Len(image))

\* the hunk the last command chose
ChosenHunk(l) == l.diff.files[1].hunks[l.hunk_index + 1]

\* C22: a discard_hunk that found its hunk succeeds and leaves the lines of
\* the hunk in the working tree equal to the hunk's old side, the index
\* content, every other line unchanged; an unstage_hunk that found its hunk
\* does the same to the index with the hunk's old side, the HEAD content
C22_DiscardAndUnstageRestoreOldSide ==
    /\ (last.cmd = "discard_hunk" /\ last.applies = 1) =>
            /\ last.result.ok
            /\ workdir = OldSideRestored(last.before.workdir, ChosenHunk(last))
            /\ index = last.before.index
    /\ (last.cmd = "unstage_hunk" /\ last.applies = 1) =>
            /\ last.result.ok
            /\ index = OldSideRestored(last.before.index, ChosenHunk(last))
            /\ workdir = last.before.workdir

-----------------------------------------------------------------------------
(* The patch synthesizer: pre-images, the two generators, reversal *)

\* the lines of a body that begin with one of the prefixes, without the
\* prefix and with their newline
RECURSIVE Unprefixed(_, _)
Unprefixed(lines, prefixes) ==
    IF lines = <<>> THEN <<>>
    ELSE (IF Head(lines) # <<>> /\ Head(lines)[1] \in prefixes
          THEN <<Tail(Head(lines)) \o <<NL>> >> ELSE <<>>)
         \o Unprefixed(Tail(lines), prefixes)

\* the contents of the lines of a hunk with one of the origins, each with its
\* newline
RECURSIVE SideOf(_, _)
SideOf(lines, origins) ==
    IF lines = <<>> THEN <<>>
    ELSE (IF Head(lines).origin \in origins
          THEN <<Terminated(Head(lines).content)>> ELSE <<>>)
         \o SideOf(Tail(lines), origins)

\* no line of the hunk is the engine's no-newline line
NoEofnl(h) == \A i \in 1..Len(h.lines) : ~IsEofnl(h.lines[i])

\* C21: for generate_line_patch with reverse = false and any selection the
\* pre-image of the patch, its ' ' and '-' body lines in order, is the old
\* side of the hunk, its Context and Deletion lines in order: an Addition
\* line that is not selected is not in the pre-image
C21_LinePatchPreimageIsOldSide ==
    (LinePatchDone /\ ~reverse /\ NoEofnl(hunk)) =>
        Unprefixed(PatchBodyLines(patch), {" ", "-"})
            = SideOf(hunk.lines, {"Context", "Deletion"})

\* the selection holds the index of every Addition and every Deletion line
SelectsEveryChange ==
    IndicesOf(hunk, {"Addition", "Deletion"}) \subseteq selected_lines

\* C26: for every hunk that satisfies the count invariant and has no Header
\* line, generate_line_patch with reverse = false and a selection that holds
\* the index of every Addition and Deletion line gives, character for
\* character, the text of generate_hunk_patch with reverse = false
C26_FullSelectionIsHunkPatch ==
    (/\ LinePatchDone /\ ~reverse
     /\ CountInvariant(hunk)
     /\ IndicesOf(hunk, {"Header"}) = {}
     /\ SelectsEveryChange)
    => patch = generate_hunk_patch(Path, hunk, FALSE)

C26_Witness ==
    /\ LinePatchDone /\ ~reverse
    /\ CountInvariant(hunk) /\ SelectsEveryChange
    /\ Len(hunk.lines) = 3
    /\ hunk.lines[1].origin = "Context"
    /\ hunk.lines[2].origin = "Deletion"
    /\ hunk.lines[3].origin = "Addition" /\ hunk.lines[3].content = <<"b">>
    /\ selected_lines = {1, 2}

\* the origin of a line with Addition and Deletion exchanged
MirrorOrigin(origin) ==
    CASE origin = "Addition" -> "Deletion"
      [] origin = "Deletion" -> "Addition"
      [] OTHER -> origin

\* the hunk with its two sides exchanged
Mirror(h) ==
    DiffHunk(h.new_start, h.new_lines, h.old_start, h.old_lines,
             [i \in 1..Len(h.lines) |->
                DiffLine(MirrorOrigin(h.lines[i].origin), h.lines[i].content,
                         h.lines[i].new_lineno, h.lines[i].old_lineno)])

\* C27: generate_hunk_patch with reverse = true gives the text it gives with
\* reverse = false for the mirrored hunk, and the mirror of the mirror gives
\* the text of the hunk itself with reverse = false
C27_ReverseIsMirror ==
    HunkPatchDone =>
        /\ reverse => patch = generate_hunk_patch(Path, Mirror(hunk), FALSE)
        /\ ~reverse =>
            /\ patch = generate_hunk_patch(Path, Mirror(hunk), TRUE)
            /\ patch = generate_hunk_patch(Path, Mirror(Mirror(hunk)), FALSE)

C27_Witness ==
    /\ HunkPatchDone /\ reverse
    /\ hunk.old_lines # hunk.new_lines
    /\ hunk.old_start # hunk.new_start
    /\ IndicesOf(hunk, {"Addition"}) # {}
    /\ IndicesOf(hunk, {"Deletion"}) # {}

-----------------------------------------------------------------------------
(* commands/repo.rs: open_repo, init_repo, close_repo and get_recent_repos, *)
(* with the recent list of state.rs.  Each command runs from its first line *)
(* to its return without a step of another command that touches the list   *)
(* (the list's Mutex is held across retain, insert and truncate), so a     *)
(* command is one step.  The time stamp of an entry is written and never   *)
(* read by these commands; it is not followed.                             *)

\* recent.len() > 20 and recent.truncate(20)
RecentCap == 20
\* how many times a run opens a repository that is already listed
MaxReopens == 1
\* how deep in the list a repository opened again may sit; the last one of
\* the list is always tried as well
MaxDepth == 2

\* the directories of the disk under one root, by their last component: one
\* more than the list can hold
DirNames == <<"a", "b", "c", "d", "e", "f", "g", "h", "i", "j", "k",
              "l", "m", "n", "o", "p", "q", "r", "s", "t", "u">>

\* what the disk holds at a path when a command looks
Disk == {"missing", "not_a_repository", "repository"}

\* PathBuf::from(&path): the path as it was typed, its components under the
\* root and whether a separator trails it
TypedPath(name, trailing) == [components |-> <<"r", name>>, trailing |-> trailing]

\* PathBuf's PartialEq compares the components: "/r/a/" equals "/r/a"
SamePath(a, b) == a.components = b.components

\* GitRepository::name: path.file_name(), the last component
FileName(p) == p.components[Len(p.components)]

\* state.rs RepoEntry, without its time stamp
RepoEntry(repo_path, name) == [path |-> repo_path, name |-> name]

\* a retain that keeps every entry
Retain_Everything(recent, repo_path) == recent

\* recent.retain(|r| r.path != repo_path)
Retain(recent, repo_path) ==
    SelectSeq(recent, LAMBDA r : ~SamePath(r.path, repo_path))

\* if recent.len() > 20 { recent.truncate(20); }
Truncate(recent) ==
    IF Len(recent) > RecentCap THEN SubSeq(recent, 1, RecentCap) ELSE recent

\* Result<T, AppError> with its value, and the errors of commands/repo.rs
OkValue(value) == [ok |-> TRUE, kind |-> "Ok", msg |-> "", value |-> value]
RepoNotFound(path_) == [ok |-> FALSE, kind |-> "RepoNotFound", msg |-> "", path |-> path_]
Git(msg) == [ok |-> FALSE, kind |-> "Git", msg |-> msg]

\* the record of a finished command that neither asks for a hunk nor applies
Reply(cmd, path_, diffed, result) ==
    [cmd |-> cmd, path |-> path_, diffed |-> diffed, applies |-> 0,
     result |-> result]

\* open_repo: nothing changes unless the path exists and holds a repository;
\* then the entry of that path moves (or comes) to position 0 and the
\* repository replaces the current one.  images: what the tracked file of
\* the opened repository may hold
open_repo(path_, disk, images) ==
    LET repo_path == path_
        name == FileName(repo_path)
    IN  /\ IF disk = "missing"
           THEN /\ last' = Reply("open_repo", path_, FALSE, RepoNotFound(path_))
                /\ UNCHANGED <<recent_repos, current_repo, head, index, workdir>>
           ELSE IF disk = "not_a_repository"
           THEN /\ last' = Reply("open_repo", path_, FALSE,
                                 Git("could not find repository"))
                /\ UNCHANGED <<recent_repos, current_repo, head, index, workdir>>
           ELSE /\ recent_repos' =
                       Truncate(<<RepoEntry(repo_path, name)>>
                                \o Retain(recent_repos, repo_path))
                /\ current_repo' = name
                /\ head' \in images /\ index' \in images /\ workdir' \in images
                /\ last' = Reply("open_repo", path_, FALSE, OkValue(name))
        /\ round_trip' = [phase |-> "idle"]
        /\ UNCHANGED <<patchVars, linesVars, parseVars, lockVars>>

\* get_recent_repos: a clone of the list
get_recent_repos ==
    /\ last' = Reply("get_recent_repos", <<>>, FALSE, OkValue(recent_repos))
    /\ UNCHANGED <<current_repo, head, index, workdir, round_trip, recentVars>>
    /\ UNCHANGED <<patchVars, linesVars, parseVars, lockVars>>

\* the directories are interchangeable: of those the list does not hold, the
\* first of the table is opened
Listed(name) == \E k \in 1..Len(recent_repos) : FileName(recent_repos[k].path) = name

FirstUnlisted ==
    CHOOSE i \in 1..Len(DirNames) :
        /\ ~Listed(DirNames[i])
        /\ \A j \in 1..(i - 1) : Listed(DirNames[j])

OpenUnlisted ==
    /\ \E disk \in Disk :
         open_repo(TypedPath(DirNames[FirstUnlisted], FALSE), disk, {<<>>})
    /\ UNCHANGED reopens

\* a listed repository is opened again, typed with or without a trailing
\* separator
ReopenPositions ==
    {k \in 1..Len(recent_repos) : k <= MaxDepth \/ k = Len(recent_repos)}

OpenListed ==
    /\ reopens < MaxReopens
    /\ \E k \in ReopenPositions, trailing \in BOOLEAN, disk \in Disk :
         open_repo(TypedPath(FileName(recent_repos[k].path), trailing), disk, {<<>>})
    /\ reopens' = reopens + 1

InitRecent ==
    /\ IdlePatch
    /\ IdleLines
    /\ IdleParse
    /\ IdleLock
    /\ IdleApp
    /\ IdleRecent

NextRecent == OpenUnlisted \/ OpenListed \/ get_recent_repos

SpecRecent == InitRecent /\ [][NextRecent]_vars

\* no two entries of the list have the same path, as PathBuf compares them
NoTwoEntriesOfOnePath ==
    \A i, j \in 1..Len(recent_repos) :
        SamePath(recent_repos[i].path, recent_repos[j].path) => i = j

\* the entries of b, in their order, are the first entries of a
IsPrefix(b, a) == Len(b) <= Len(a) /\ b = SubSeq(a, 1, Len(b))

\* what a finished open_repo did to the list: a failed one nothing; a
\* successful one put its path at position 0 and kept the other entries in
\* their order, dropping at most those past the cap
OpenRepoKeepsTheOrder ==
    last'.cmd = "open_repo" =>
        IF last'.result.ok
        THEN /\ recent_repos' # <<>>
             /\ recent_repos'[1].path = last'.path
             /\ IsPrefix(Tail(recent_repos'), Retain(recent_repos, last'.path))
             /\ Len(recent_repos') = Min(RecentCap, Len(Retain(recent_repos, last'.path)) + 1)
        ELSE recent_repos' = recent_repos

\* C29: from an empty list, whatever open_repo calls succeed or fail, the
\* list never holds two entries of one path nor more than 20 entries; a
\* successful open_repo puts its repository at position 0 and keeps the
\* order of the others; a failed open_repo leaves the list as it was
C29_RecentListInvariant ==
    /\ [](NoTwoEntriesOfOnePath /\ Len(recent_repos) <= RecentCap)
    /\ [][OpenRepoKeepsTheOrder]_vars

\* the list is full, a listed repository was opened again from the end of
\* the list and typed with a trailing separator, and it is at position 0
C29_Witness ==
    /\ Len(recent_repos) = RecentCap
    /\ reopens > 0
    /\ last.cmd = "open_repo" /\ last.result.ok
    /\ recent_repos[1].path.trailing
    /\ FileName(recent_repos[1].path) = DirNames[1]
    /\ Listed(DirNames[RecentCap + 1])

-----------------------------------------------------------------------------
(* The commands that need an open repository, with those that open and     *)
(* close one: commands/workspace.rs get_diff, get_staged_diff,             *)
(* get_line_changes and the four hunk commands, commands/repo.rs open_repo,*)
(* init_repo and close_repo.                                               *)

\* how many directories of the disk the examined runs open or initialize
MaxRepos == 2

RepoPaths == {TypedPath(DirNames[i], FALSE) : i \in 1..MaxRepos}

\* the commands that ask the diff engine for a diff of the repository
DiffCommands ==
    {"get_diff", "get_staged_diff", "get_line_changes",
     "stage_hunk", "unstage_hunk", "stage_lines", "discard_hunk"}

\* the record of a finished command that only reads a diff
DiffReply(cmd, path_, diffed, diff, result) ==
    [cmd |-> cmd, path |-> path_, diffed |-> diffed, diff |-> diff,
     applies |-> 0, result |-> result]

\* what a command that only reads leaves as it is
ReadOnly ==
    /\ round_trip' = [phase |-> "idle"]
    /\ UNCHANGED <<current_repo, head, index, workdir, recentVars>>
    /\ UNCHANGED <<patchVars, linesVars, parseVars, lockVars>>

\* a guard that lets the command through without a repository
NoRepository_Never(repo) == FALSE

\* repo.as_ref().ok_or(AppError::General("No repository opened".into()))?
NoRepository(repo) == repo = "None"

\* get_diff: repo.diff_file(&path, staged)
get_diff ==
    /\ \E path_ \in Paths, staged \in BOOLEAN :
         IF NoRepository(current_repo)
         THEN last' = DiffReply("get_diff", path_, FALSE, [files |-> <<>>],
                                General("No repository opened"))
         ELSE \E diff \in diff_file(path_, staged) :
                last' = DiffReply("get_diff", path_, TRUE, diff, OkValue(diff))
    /\ ReadOnly

\* get_staged_diff: repo.diff_staged(), HEAD against the index without a
\* pathspec; the repository holds the one tracked file
get_staged_diff ==
    /\ IF NoRepository(current_repo)
       THEN last' = DiffReply("get_staged_diff", <<>>, FALSE, [files |-> <<>>],
                              General("No repository opened"))
       ELSE \E diff \in DiffOutputs(Path, head, index) :
              last' = DiffReply("get_staged_diff", <<>>, TRUE, diff, OkValue(diff))
    /\ ReadOnly

\* get_line_changes: repo.line_changes(&path) asks the engine for the diff
\* of HEAD against the working tree; the ranges line_changes computes from
\* it are followed step by step under SpecLines, here the reply keeps the
\* diff they are computed from
get_line_changes ==
    /\ \E path_ \in Paths :
         IF NoRepository(current_repo)
         THEN last' = DiffReply("get_line_changes", path_, FALSE, [files |-> <<>>],
                                General("No repository opened"))
         ELSE \E diff \in (IF path_ # Path THEN {[files |-> <<>>]}
                           ELSE DiffOutputs(path_, head, workdir)) :
                last' = DiffReply("get_line_changes", path_, TRUE, diff, Ok)
    /\ ReadOnly

\* init_repo: GitRepository::init, then the repository replaces the current
\* one; the recent list is not touched
init_repo(path_, created, images) ==
    /\ IF ~created
       THEN /\ last' = Reply("init_repo", path_, FALSE, Git("failed to initialize"))
            /\ UNCHANGED <<current_repo, head, index, workdir>>
       ELSE /\ current_repo' = FileName(path_)
            /\ head' \in images /\ index' \in images /\ workdir' \in images
            /\ last' = Reply("init_repo", path_, FALSE, OkValue(FileName(path_)))
    /\ round_trip' = [phase |-> "idle"]
    /\ UNCHANGED <<recentVars, patchVars, linesVars, parseVars, lockVars>>

\* close_repo: *state.current_repo.lock().await = None
close_repo ==
    /\ current_repo' = "None"
    /\ last' = Reply("close_repo", <<>>, FALSE, Ok)
    /\ round_trip' = [phase |-> "idle"]
    /\ UNCHANGED <<head, index, workdir>>
    /\ UNCHANGED <<recentVars, patchVars, linesVars, parseVars, lockVars>>

\* what the tracked file of a repository on the disk holds in HEAD, index
\* and working tree when it is opened: its first line, or all its lines
RepoImages == {KeepLines(FullText, 1, keep) : keep \in {{1}, 1..MaxFileLines}}

OpenRepo ==
    /\ \E path_ \in RepoPaths, disk \in Disk : open_repo(path_, disk, RepoImages)
    /\ UNCHANGED reopens

\* a repository that was just initialized tracks no file
InitRepo ==
    \E path_ \in RepoPaths, created \in BOOLEAN : init_repo(path_, created, {<<>>})

NextRepo ==
    \/ OpenRepo \/ InitRepo \/ close_repo
    \/ get_diff \/ get_staged_diff \/ get_line_changes
    \/ stage_hunk \/ unstage_hunk \/ stage_lines \/ discard_hunk

SpecRepo == InitRecent /\ [][NextRepo]_vars

\* a command that needs a repository finds none: it answers "No repository
\* opened", has asked the engine for no diff, has run no apply, and the
\* index and the working tree are as they were
AnswersNoRepositoryOpened ==
    (current_repo = "None" /\ last'.cmd \in DiffCommands) =>
        /\ last'.result = General("No repository opened")
        /\ ~last'.diffed
        /\ last'.applies = 0
        /\ UNCHANGED <<head, index, workdir, current_repo>>

\* an open_repo that fails leaves the open repository where it was
FailedOpenKeepsRepository ==
    (last'.cmd = "open_repo" /\ ~last'.result.ok) =>
        UNCHANGED <<current_repo, head, index, workdir, recent_repos>>

\* no repository is open exactly at the start and from a close_repo to the
\* next successful open_repo or init_repo
OpenOnlyByOpenOrInit ==
    (current_repo' = "None") <=>
          \/ last'.cmd = "close_repo"
          \/ current_repo = "None"
             /\ ~(last'.cmd \in {"open_repo", "init_repo"} /\ last'.result.ok)

\* C30: with no repository open (at the start, and from a close_repo to the
\* next successful open_repo or init_repo) get_diff, get_staged_diff,
\* get_line_changes, stage_hunk, unstage_hunk, stage_lines and discard_hunk
\* each return "No repository opened" without a diff asked of the engine
\* and without an apply; a failed open_repo leaves the open repository in
\* place
C30_NoRepositoryOpened ==
    /\ current_repo = "None"
    /\ [][/\ AnswersNoRepositoryOpened
          /\ FailedOpenKeepsRepository
          /\ OpenOnlyByOpenOrInit]_vars

\* a repository with a change to discard was opened and closed, and then
\* discard_hunk was answered "No repository opened"
C30_Witness ==
    /\ current_repo = "None"
    /\ recent_repos # <<>>
    /\ index # workdir
    /\ last.cmd = "discard_hunk"
    /\ last.result = General("No repository opened")

====
